---- MODULE Spec2Model ----
(***************************************************************************)
(* Model of tools/bench/compare_mermaid_renderers.py: the Criterion        *)
(* summary parser, the filter expander, the benchmark-set reconciliation   *)
(* and the orchestrating loop of main.                                     *)
(*                                                                         *)
(* Text is modelled at character level: a Python str is a sequence of      *)
(* one-character strings.  Three characters have spelled-out names:        *)
(* "ESC" (U+001B), "micro" (U+00B5) and "mu" (U+03BC).                      *)
(***************************************************************************)
EXTENDS Integers, Sequences, FiniteSets, TLC

VARIABLES
    prefix,          \* parse_criterion_times: the requested group
    text,            \* parse_criterion_times: the lines read so far
    cur,             \* parse_criterion_times: the pending name, or None
    times,           \* parse_criterion_times: name -> TimeEstimate
    parts,           \* expand_filter_to_exact_benches: what its argument is written from
    filter_expr,     \* expand_filter_to_exact_benches: its argument
    expanded,        \* expand_filter_to_exact_benches: its result, or None
    idx,             \* main: how many benchmarks of the loop are done
    out,             \* main: the captured output of the latest invocation
    merman_times,    \* main: the TimingTable of merman
    pc,              \* main: where the run is
    args_filter,     \* main: args.filter
    requested,       \* main: the expanded filter
    merman_benches,  \* main: the benchmarks merman lists
    mmdr_benches,    \* main: the benchmarks mermaid-rs-renderer lists
    missing_merman,  \* main
    missing_mmdr,    \* main
    benches,         \* main: the runnable benchmarks, in request order
    mmdr_times,      \* main: the TimingTable of mermaid-rs-renderer
    merman_out_all,  \* main: the outputs of the merman invocations
    mermaid_js_results, \* main: name -> median nanoseconds of mermaid-js
    cmds,            \* the external commands run so far, in order
    failure,         \* the exception that ended the run, or None
    report,          \* what write_markdown was given, or None
    stage_pc,        \* stage_spotcheck.main: where the run is
    args_fixtures,   \* stage_spotcheck.main: args.fixtures
    fixtures,        \* stage_spotcheck.main
    stage_i,         \* stage_spotcheck.main: how many (fixture, stage) pairs are done
    merman_mid,      \* stage_spotcheck.main: the merman Duration of the pair, or None
    stage_rows,      \* stage_spotcheck.main: rows
    stage_cmds,      \* stage_spotcheck.main: the --exact names run so far, in order
    stage_failure,   \* stage_spotcheck.main: the exception that ended the run, or None
    stage_out,       \* stage_spotcheck.main: the report written, or None
    fn_arg,          \* a function called on its own: its argument
    fn_out,          \* a function called on its own: function name -> what it did
    pub_pc,          \* publish.main: where the run is
    pub_args,        \* publish.main: args
    pub_tty,         \* publish.main: sys.stdin.isatty()
    pub_crates,      \* publish.main: crates
    pub_i,           \* publish.main: how many crates the loop is through
    pub_failures,    \* publish.main: failures
    pub_log,         \* publish.main: the commands, prompts and waits so far, in order
    pub_exit         \* publish.main: how the run ended, or None

parseVars == <<prefix, text, cur, times>>
expandVars == <<parts, filter_expr, expanded>>
tableVars == <<idx, out, merman_times>>
mainVars ==
    <<pc, args_filter, requested, merman_benches, mmdr_benches, missing_merman,
      missing_mmdr, benches, mmdr_times, merman_out_all, mermaid_js_results, cmds,
      failure, report>>
stageVars ==
    <<stage_pc, args_fixtures, fixtures, stage_i, merman_mid, stage_rows, stage_cmds,
      stage_failure, stage_out>>
fnVars == <<fn_arg, fn_out>>
pubVars ==
    <<pub_pc, pub_args, pub_tty, pub_crates, pub_i, pub_failures, pub_log, pub_exit>>
vars == <<parseVars, expandVars, tableVars, mainVars, stageVars, fnVars, pubVars>>

\* Python's None, and a present optional value.  A name, a match and an
\* estimate are never empty, so the empty sequence stands for None.
None == <<>>
Some(x) == <<x>>

(***************************************************************************)
(* Character classes of the regular expressions, restricted to the         *)
(* characters the model's inputs are written with.                         *)
(***************************************************************************)
Lower == {"a", "b", "c", "d", "e", "f", "g", "h", "i", "k", "l", "m", "n", "o", "p",
          "r", "s", "t", "u", "v", "x", "y"}
Upper == {"K"}
Digit == {"0", "1", "2", "3", "4", "5", "6", "7", "8", "9"}
\* [A-Za-z]
Alpha == Lower \cup Upper
\* [A-Za-z0-9_\-]
NameChar == Alpha \cup Digit \cup {"_", "-"}
\* \s
Space == {" ", "TAB"}
\* [A-Za-zµμ]
UnitChar == Alpha \cup {"micro", "mu"}
\* [0-9;?]
AnsiParam == Digit \cup {";", "?"}

\* The index after the longest run of characters of class C that starts at i.
RECURSIVE SkipWhile(_, _, _)
SkipWhile(s, i, C) ==
    IF i <= Len(s) /\ s[i] \in C THEN SkipWhile(s, i + 1, C) ELSE i

\* Whether the literal lit occurs in s at index i.
LitAt(s, i, lit) ==
    /\ i + Len(lit) - 1 <= Len(s)
    /\ SubSeq(s, i, i + Len(lit) - 1) = lit

\* s from index i to its end.
From(s, i) == SubSeq(s, i, Len(s))

\* The characters of s.
Range(s) == {s[i] : i \in DOMAIN s}

\* _ANSI_RE.sub("", text): one left-to-right pass that drops every
\* non-overlapping match of  \x1b\[[0-9;?]*[A-Za-z].
RECURSIVE StripFrom(_, _)
StripFrom(s, i) ==
    IF i > Len(s) THEN <<>>
    ELSE LET j == SkipWhile(s, i + 2, AnsiParam)
         IN  IF /\ s[i] = "ESC"
                /\ i + 1 <= Len(s)
                /\ s[i + 1] = "["
                /\ j <= Len(s)
                /\ s[j] \in Alpha
             THEN StripFrom(s, j + 1)
             ELSE <<s[i]>> \o StripFrom(s, i + 1)

\* A variant that drops the first match only.
StripAnsiFirstOnly(s) ==
    LET End(i) == SkipWhile(s, i + 2, AnsiParam)
        Starts == {i \in DOMAIN s :
                      /\ s[i] = "ESC"
                      /\ i + 1 <= Len(s)
                      /\ s[i + 1] = "["
                      /\ End(i) <= Len(s)
                      /\ s[End(i)] \in Alpha}
        first == CHOOSE i \in Starts : \A k \in Starts : i <= k
    IN  IF Starts = {} THEN s
        ELSE SubSeq(s, 1, first - 1) \o From(s, End(first) + 1)

\* (a text without ESC has no match and is returned as it is)
strip_ansi(s) == IF "ESC" \in Range(s) THEN StripFrom(s, 1) ELSE s

\* str.strip(): leading and trailing whitespace removed.
RECURSIVE RStrip(_)
RStrip(s) ==
    IF Len(s) > 0 /\ s[Len(s)] \in Space THEN RStrip(SubSeq(s, 1, Len(s) - 1)) ELSE s

strip(s) == RStrip(From(s, SkipWhile(s, 1, Space)))

(***************************************************************************)
(* Numbers.  A float is held as a fixed-point number of FracDigits         *)
(* fractional digits, exact for the model's inputs, which carry at most    *)
(* two.                                                                    *)
(***************************************************************************)
FracDigits == 2

DigitVal(c) ==
    CASE c = "0" -> 0 [] c = "1" -> 1 [] c = "2" -> 2 [] c = "3" -> 3 [] c = "4" -> 4
      [] c = "5" -> 5 [] c = "6" -> 6 [] c = "7" -> 7 [] c = "8" -> 8 [] c = "9" -> 9

RECURSIVE IntVal(_)
IntVal(ds) ==
    IF ds = <<>> THEN 0
    ELSE 10 * IntVal(SubSeq(ds, 1, Len(ds) - 1)) + DigitVal(ds[Len(ds)])

RECURSIVE Pow10(_)
Pow10(k) == IF k = 0 THEN 1 ELSE 10 * Pow10(k - 1)

FracScale == Pow10(FracDigits)

\* The number n/d.
Val(n, d) == (n * FracScale) \div d

\* float("<digits>[.<digits>]")
float(num) ==
    LET d == SkipWhile(num, 1, Digit)
        frac == From(num, d + 1)
    IN  IntVal(SubSeq(num, 1, d - 1)) * FracScale
          + (IntVal(frac) * FracScale) \div Pow10(Len(frac))

(***************************************************************************)
(* The line patterns.  A match is Some(record of its groups), or None.     *)
(***************************************************************************)
\* \[(?P<body>.+?)\]\s*$  at index j: the indices of a "]" that ends a
\* non-empty body and is followed by whitespace only.
BracketEnds(s, j) ==
    {k \in (j + 2)..Len(s) : s[k] = "]" /\ SkipWhile(s, k + 1, Space) = Len(s) + 1}

BracketBody(s, j) ==
    IF j <= Len(s) /\ s[j] = "[" /\ BracketEnds(s, j) # {}
    THEN Some(SubSeq(s, j + 1, (CHOOSE k \in BracketEnds(s, j) :
                                   \A l \in BracketEnds(s, j) : k <= l) - 1))
    ELSE None

\* ^(?P<prefix>[A-Za-z0-9_\-]+)/(?P<name>[A-Za-z0-9_\-]+)  : the index after
\* the name, or 0 when the line does not start with group/name.
NameEnd(s) ==
    LET p == SkipWhile(s, 1, NameChar)
        n == SkipWhile(s, p + 1, NameChar)
    IN  IF p > 1 /\ p <= Len(s) /\ s[p] = "/" /\ n > p + 1 THEN n ELSE 0

GroupOf(s) == SubSeq(s, 1, SkipWhile(s, 1, NameChar) - 1)
NameOf(s) == SubSeq(s, SkipWhile(s, 1, NameChar) + 1, NameEnd(s) - 1)

TimeLit == <<"t", "i", "m", "e", ":">>

\* _LINE_NAME_ONLY.match(line)
LINE_NAME_ONLY(line) ==
    LET n == NameEnd(line)
    IN  IF n > 0 /\ SkipWhile(line, n, Space) = Len(line) + 1
        THEN Some([prefix |-> GroupOf(line), name |-> NameOf(line)])
        ELSE None

\* _LINE_TIME_ONLY.match(line)
LINE_TIME_ONLY(line) ==
    LET t == SkipWhile(line, 1, Space)
        b == SkipWhile(line, t + Len(TimeLit), Space)
    IN  IF LitAt(line, t, TimeLit) /\ BracketBody(line, b) # None
        THEN Some([body |-> BracketBody(line, b)[1]])
        ELSE None

\* _LINE_INLINE.match(line)
LINE_INLINE(line) ==
    LET n == NameEnd(line)
        t == SkipWhile(line, n, Space)
        b == SkipWhile(line, t + Len(TimeLit), Space)
    IN  IF n > 0 /\ t > n /\ LitAt(line, t, TimeLit) /\ BracketBody(line, b) # None
        THEN Some([prefix |-> GroupOf(line), name |-> NameOf(line),
                   body |-> BracketBody(line, b)[1]])
        ELSE None

(***************************************************************************)
(* _parse_bracket_time                                                     *)
(***************************************************************************)
\* re.findall(r"([0-9]+(?:\.[0-9]+)?)\s*([A-Za-zµμ]+)", body) from index i.
RECURSIVE FindPairs(_, _)
FindPairs(s, i) ==
    IF i > Len(s) THEN <<>>
    ELSE LET d == SkipWhile(s, i, Digit)
             f == IF d <= Len(s) /\ s[d] = "." /\ SkipWhile(s, d + 1, Digit) > d + 1
                  THEN SkipWhile(s, d + 1, Digit)
                  ELSE d
             w == SkipWhile(s, f, Space)
             u == SkipWhile(s, w, UnitChar)
         IN  IF d > i /\ u > w
             THEN <<[num |-> SubSeq(s, i, f - 1), unit |-> SubSeq(s, w, u - 1)]>>
                    \o FindPairs(s, u)
             ELSE FindPairs(s, i + 1)

TimeEstimate(value, unit) == [value |-> value, unit |-> unit]

\* A variant that keeps the first pair (lo) instead of the second.
ParseBracketTimeLo(body) ==
    LET pairs == FindPairs(strip(strip_ansi(body)), 1)
    IN  IF Len(pairs) < 2 THEN None
        ELSE Some(TimeEstimate(float(pairs[1].num), pairs[1].unit))

_parse_bracket_time(body) ==
    LET pairs == FindPairs(strip(strip_ansi(body)), 1)
    IN  IF Len(pairs) < 2 THEN None
        ELSE Some(TimeEstimate(float(pairs[2].num), pairs[2].unit))

(***************************************************************************)
(* parse_criterion_times: one iteration of its loop over the lines, on the *)
(* loop state st = [times, cur].                                           *)
(***************************************************************************)
\* d[k] = v
Put(d, k, v) == (k :> v) @@ d

\* lines 222-229: the single-line layout
InlineBranch(st, m) ==
    LET estimate == _parse_bracket_time(m.body)
    IN  [times |-> IF estimate # None THEN Put(st.times, m.name, estimate[1])
                   ELSE st.times,
         cur |-> None]

\* A variant in which a name line does not replace an unresolved pending name.
NameBranchKeepsFirst(st, m) ==
    [times |-> st.times, cur |-> IF st.cur # None THEN st.cur ELSE m.name]

\* lines 231-234: a bare name line
NameBranch(st, m) == [times |-> st.times, cur |-> m.name]

\* A variant that clears the pending name only when the body parsed.
TimeBranchKeepsPending(st, line) ==
    LET m_time == LINE_TIME_ONLY(line)
        estimate == _parse_bracket_time(m_time[1].body)
    IN  IF st.cur # None /\ m_time # None /\ estimate # None
        THEN [times |-> Put(st.times, st.cur, estimate[1]), cur |-> None]
        ELSE st

\* A variant without the guard on the pending name.
TimeBranchNoGuard(st, line) ==
    LET m_time == LINE_TIME_ONLY(line)
        estimate == _parse_bracket_time(m_time[1].body)
    IN  IF m_time # None
        THEN [times |-> IF estimate # None THEN Put(st.times, st.cur, estimate[1])
                        ELSE st.times,
              cur |-> None]
        ELSE st

\* A variant in which the pending name survives only to the very next line.
TimeBranchAdjacentOnly(st, line) ==
    LET m_time == LINE_TIME_ONLY(line)
        estimate == _parse_bracket_time(m_time[1].body)
    IN  IF st.cur # None /\ m_time # None /\ estimate # None
        THEN [times |-> Put(st.times, st.cur, estimate[1]), cur |-> None]
        ELSE [times |-> st.times, cur |-> None]

\* lines 236-242: any other line
TimeBranch(st, line) ==
    IF st.cur # None
    THEN LET m_time == LINE_TIME_ONLY(line)
         IN  IF m_time # None
             THEN LET estimate == _parse_bracket_time(m_time[1].body)
                  IN  [times |-> IF estimate # None
                                 THEN Put(st.times, st.cur, estimate[1])
                                 ELSE st.times,
                       cur |-> None]
             ELSE st
    ELSE st

ParseStep(st, raw, pfx) ==
    LET line == strip_ansi(raw)
        m_inline == LINE_INLINE(line)
        m_name == LINE_NAME_ONLY(line)
    IN  IF m_inline # None /\ m_inline[1].prefix = pfx
        THEN InlineBranch(st, m_inline[1])
        ELSE IF m_name # None /\ m_name[1].prefix = pfx
        THEN NameBranch(st, m_name[1])
        ELSE TimeBranch(st, line)

RECURSIVE ParseFrom(_, _, _)
ParseFrom(st, lines, pfx) ==
    IF lines = <<>> THEN st
    ELSE ParseFrom(ParseStep(st, Head(lines), pfx), Tail(lines), pfx)

parse_criterion_times(lines, pfx) ==
    ParseFrom([times |-> <<>>, cur |-> None], lines, pfx).times

(***************************************************************************)
(* expand_filter_to_exact_benches                                          *)
(***************************************************************************)
\* s.split(sep) for a one-character separator.
RECURSIVE Split(_, _)
Split(s, sep) ==
    LET i == SkipWhile(s, 1, {c \in Range(s) : c # sep})
    IN  IF i > Len(s) THEN <<s>>
        ELSE <<SubSeq(s, 1, i - 1)>> \o Split(From(s, i + 1), sep)

\* re.fullmatch(r"[A-Za-z0-9_-]+", name)
IsName(name) == name # <<>> /\ SkipWhile(name, 1, NameChar) = Len(name) + 1

\* re.fullmatch(r"(?P<prefix>[A-Za-z0-9_-]+)/\((?P<body>[^)]+)\)", text)
FilterShape(s) ==
    LET p == SkipWhile(s, 1, NameChar)
        body == SubSeq(s, p + 2, Len(s) - 1)
    IN  IF /\ p > 1
           /\ LitAt(s, p, <<"/", "(">>)
           /\ Len(s) >= p + 3
           /\ s[Len(s)] = ")"
           /\ ")" \notin Range(body)
        THEN Some([prefix |-> SubSeq(s, 1, p - 1), body |-> body])
        ELSE None

\* [p.strip() for p in body.split("|") if p.strip()]
Alternatives(body) ==
    LET ps == Split(body, "|")
        stripped == [i \in DOMAIN ps |-> strip(ps[i])]
    IN  SelectSeq(stripped, LAMBDA a : a # <<>>)

\* A variant that skips an alternative outside the charset instead of
\* giving the expression up.
ExpandSkipsInvalid(expr) ==
    LET s == strip(expr)
        m == FilterShape(s)
        alts == SelectSeq(Alternatives(m[1].body), IsName)
    IN  IF m = None \/ alts = <<>> THEN <<s>>
        ELSE [i \in DOMAIN alts |-> m[1].prefix \o <<"/">> \o alts[i]]

\* A variant that lists every alternative once.
ExpandDropsRepeats(expr) ==
    LET s == strip(expr)
        m == FilterShape(s)
        alts == Alternatives(m[1].body)
        first == {i \in DOMAIN alts : \A j \in 1..(i - 1) : alts[j] # alts[i]}
        kept == SelectSeq([i \in DOMAIN alts |-> IF i \in first THEN alts[i] ELSE <<>>],
                          LAMBDA a : a # <<>>)
    IN  IF m = None \/ alts = <<>> \/ \E i \in DOMAIN alts : ~IsName(alts[i])
        THEN <<s>>
        ELSE [i \in DOMAIN kept |-> m[1].prefix \o <<"/">> \o kept[i]]

expand_filter_to_exact_benches(expr) ==
    LET s == strip(expr)
        m == FilterShape(s)
        alts == Alternatives(m[1].body)
    IN  IF m = None THEN <<s>>
        ELSE IF \E i \in DOMAIN alts : ~IsName(alts[i]) THEN <<s>>
        ELSE IF alts = <<>> THEN <<s>>
        ELSE [i \in DOMAIN alts |-> m[1].prefix \o <<"/">> \o alts[i]]

(***************************************************************************)
(* Helpers of main: dict.update, sorted, list_criterion_benches, to_nanos.  *)
(***************************************************************************)
\* A variant of update that keeps the entries the table already has.
UpdateKeepsOld(d, e) == d @@ e

\* d.update(e)
Update(d, e) == e @@ d

\* ord(c), for the characters of benchmark names and filter expressions.
Ord(c) ==
    CASE c = "TAB" -> 9 [] c = " " -> 32 [] c = "!" -> 33 [] c = "(" -> 40 [] c = ")" -> 41
      [] c = "-" -> 45 [] c = "/" -> 47 [] c = "K" -> 75 [] c = "_" -> 95
      [] c = "|" -> 124
      [] c \in Digit -> 48 + DigitVal(c)
      [] c = "a" -> 97 [] c = "b" -> 98 [] c = "c" -> 99 [] c = "d" -> 100
      [] c = "e" -> 101 [] c = "f" -> 102 [] c = "g" -> 103 [] c = "h" -> 104
      [] c = "i" -> 105 [] c = "k" -> 107 [] c = "l" -> 108 [] c = "m" -> 109
      [] c = "n" -> 110 [] c = "o" -> 111 [] c = "p" -> 112 [] c = "r" -> 114
      [] c = "s" -> 115 [] c = "t" -> 116 [] c = "u" -> 117 [] c = "v" -> 118
      [] c = "x" -> 120 [] c = "y" -> 121

\* s < t for Python strings.
RECURSIVE StrLess(_, _)
StrLess(s, t) ==
    IF t = <<>> THEN FALSE
    ELSE IF s = <<>> THEN TRUE
    ELSE IF Head(s) = Head(t) THEN StrLess(Tail(s), Tail(t))
    ELSE Ord(Head(s)) < Ord(Head(t))

\* The list xs with x put before the first element greater than it.
RECURSIVE Insert(_, _)
Insert(xs, x) ==
    IF xs = <<>> THEN <<x>>
    ELSE IF StrLess(x, Head(xs)) THEN <<x>> \o xs
    ELSE <<Head(xs)>> \o Insert(Tail(xs), x)

\* sorted(xs) for a list of strings
RECURSIVE sorted(_)
sorted(xs) == IF xs = <<>> THEN <<>> ELSE Insert(sorted(Tail(xs)), Head(xs))

\* sorted(S) for a set of strings
RECURSIVE SortedSet(_)
SortedSet(S) ==
    IF S = {} THEN <<>>
    ELSE LET m == CHOOSE x \in S : \A y \in S : y = x \/ StrLess(x, y)
         IN  <<m>> \o SortedSet(S \ {m})

BenchmarkLit == <<"b", "e", "n", "c", "h", "m", "a", "r", "k">>

\* _LIST_LINE.match(line): ^(?P<bench>[A-Za-z0-9_/-]+):\s*benchmark\s*$
LIST_LINE(line) ==
    LET n == SkipWhile(line, 1, NameChar \cup {"/"})
        w == SkipWhile(line, n + 1, Space)
    IN  IF /\ n > 1
           /\ LitAt(line, n, <<":">>)
           /\ LitAt(line, w, BenchmarkLit)
           /\ SkipWhile(line, w + Len(BenchmarkLit), Space) = Len(line) + 1
        THEN Some([bench |-> SubSeq(line, 1, n - 1)])
        ELSE None

\* list_criterion_benches, lines 278-285: the names listed in the output of
\* `cargo bench ... -- --list`.
ListedBenches(lines) ==
    {LIST_LINE(strip(strip_ansi(lines[i])))[1].bench :
        i \in {j \in DOMAIN lines : LIST_LINE(strip(strip_ansi(lines[j]))) # None}}

\* exact.split("/", 1)[0]
PrefixOf(exact) == Split(exact, "/")[1]

\* TimeEstimate.to_nanos: the unit as to_nanos reads it
UnitKey(unit) ==
    LET u == strip(strip_ansi(unit))
    IN  [i \in DOMAIN u |-> IF u[i] = "mu" THEN "micro" ELSE u[i]]

KnownUnits == {<<"n", "s">>, <<"u", "s">>, <<"micro", "s">>, <<"m", "s">>, <<"s">>}

\* TimeEstimate.to_nanos, for a unit it knows (it raises ValueError otherwise)
to_nanos(est) ==
    LET u == UnitKey(est.unit)
    IN  CASE u = <<"n", "s">> -> est.value
          [] u \in {<<"u", "s">>, <<"micro", "s">>} -> est.value * 1000
          [] u = <<"m", "s">> -> est.value * 1000000
          [] u = <<"s">> -> est.value * 1000000000

(***************************************************************************)
(* write_markdown: numbers as text.  A duration in nanoseconds is held     *)
(* with FracDigits decimals: the integer nanos stands for nanos/FracScale. *)
(***************************************************************************)
DigitChars == <<"0", "1", "2", "3", "4", "5", "6", "7", "8", "9">>

\* str(n) for a natural number
RECURSIVE Digits(_)
Digits(n) ==
    IF n < 10 THEN <<DigitChars[n + 1]>>
    ELSE Digits(n \div 10) \o <<DigitChars[(n % 10) + 1]>>

\* the digits of n, with zeros in front up to k places
RECURSIVE ZeroPad(_, _)
ZeroPad(n, k) ==
    IF k = 0 THEN <<>>
    ELSE ZeroPad(n \div 10, k - 1) \o <<DigitChars[(n % 10) + 1]>>

\* num/den as the nearest multiple of 1/10^k, in units of 1/10^k.  The two
\* branches are the same number; the first keeps the intermediate values small.
Rounded(num, den, k) ==
    LET whole == num \div den
        rest == num % den
    IN  IF den % (2 * Pow10(k)) = 0
        THEN whole * Pow10(k) + (rest + den \div (2 * Pow10(k))) \div (den \div Pow10(k))
        ELSE whole * Pow10(k) + (2 * rest * Pow10(k) + den) \div (2 * den)

\* f"{num/den:.{k}f}"
Fixed(num, den, k) ==
    LET q == Rounded(num, den, k)
    IN  Digits(q \div Pow10(k)) \o <<".">> \o ZeroPad(q % Pow10(k), k)

\* A variant of pretty_time whose steps compare with <=.
PrettyTimeInclusive(num, den) ==
    LET whole == num \div den
        exact == num % den = 0
    IN  IF whole < 1000 \/ (whole = 1000 /\ exact)
        THEN Fixed(num, den, 2) \o <<" ", "n", "s">>
        ELSE IF whole < 1000000 \/ (whole = 1000000 /\ exact)
        THEN Fixed(num, den * 1000, 2) \o <<" ", "micro", "s">>
        ELSE IF whole < 1000000000 \/ (whole = 1000000000 /\ exact)
        THEN Fixed(num, den * 1000000, 2) \o <<" ", "m", "s">>
        ELSE Fixed(num, den * 1000000000, 2) \o <<" ", "s">>

\* pretty_time, lines 56-63, of num/den nanoseconds
PrettyTime(num, den) ==
    LET whole == num \div den
    IN  IF whole < 1000
        THEN Fixed(num, den, 2) \o <<" ", "n", "s">>
        ELSE IF whole < 1000000
        THEN Fixed(num, den * 1000, 2) \o <<" ", "micro", "s">>
        ELSE IF whole < 1000000000
        THEN Fixed(num, den * 1000000, 2) \o <<" ", "m", "s">>
        ELSE Fixed(num, den * 1000000000, 2) \o <<" ", "s">>

\* pretty_time of a duration held with FracDigits decimals
pretty_time(nanos) == PrettyTime(nanos, FracScale)

Dash == <<"-">>
InfText == <<"i", "n", "f">>

\* float("inf"), and a quotient of two durations
Infinite == [inf |-> TRUE]
Quot(num, den) == [inf |-> FALSE, num |-> num, den |-> den]

\* fmt_ratio, lines 353-358
fmt_ratio(v) ==
    IF v.inf \/ ~(v.num > 0) THEN InfText
    ELSE IF 10 * v.num < v.den THEN Fixed(v.num, v.den, 2) \o <<"x">>
    ELSE Fixed(v.num, v.den, 1) \o <<"x">>

(***************************************************************************)
(* parse_skip_lines and the table and sections write_markdown writes.      *)
(***************************************************************************)
\* The group whose rows and skips the report shows.
E2E == <<"e", "n", "d", "_", "t", "o", "_", "e", "n", "d">>

SkipLit == <<"[", "b", "e", "n", "c", "h", "]", "[", "s", "k", "i", "p", "]", "[">>

\* _SKIP_LINE.match(line):
\* ^\[bench\]\[skip\]\[(?P<group>[A-Za-z0-9_\-]+)\]\s+(?P<name>[A-Za-z0-9_\-]+):\s*(?P<reason>.+)$
SKIP_LINE(line) ==
    LET g0 == Len(SkipLit) + 1
        g1 == SkipWhile(line, g0, NameChar)
        n0 == SkipWhile(line, g1 + 1, Space)
        n1 == SkipWhile(line, n0, NameChar)
    IN  IF /\ LitAt(line, 1, SkipLit)
           /\ g1 > g0
           /\ LitAt(line, g1, <<"]">>)
           /\ n0 > g1 + 1
           /\ n1 > n0
           /\ LitAt(line, n1, <<":">>)
           /\ Len(line) > n1
        THEN Some([group |-> SubSeq(line, g0, g1 - 1), name |-> SubSeq(line, n0, n1 - 1)])
        ELSE None

\* "\n".join(outs).splitlines(), without the empty lines
RECURSIVE JoinedLines(_)
JoinedLines(outs) ==
    IF outs = <<>> THEN <<>> ELSE Head(outs) \o JoinedLines(Tail(outs))

\* parse_skip_lines, lines 90-102: group -> the sorted names skipped in it
parse_skip_lines(outs) ==
    LET lines == JoinedLines(outs)
        ms == {SKIP_LINE(strip_ansi(lines[i])) : i \in DOMAIN lines} \ {None}
    IN  [g \in {m[1].group : m \in ms} |->
            SortedSet({m[1].name : m \in {x \in ms : x[1].group = g}})]

\* The row before which sorted(rows, key=...) puts r: the first with a
\* greater name.
RECURSIVE InsertRow(_, _)
InsertRow(rs, r) ==
    IF rs = <<>> THEN <<r>>
    ELSE IF StrLess(r.name, Head(rs).name) THEN <<r>> \o rs
    ELSE <<Head(rs)>> \o InsertRow(Tail(rs), r)

\* sorted(rows, key=lambda r: r[0]), line 361
RECURSIVE SortRows(_)
SortRows(rs) ==
    IF rs = <<>> THEN <<>>
    ELSE InsertRow(SortRows(SubSeq(rs, 1, Len(rs) - 1)), rs[Len(rs)])

\* lines 363-372: the six cells of a row
RowLine(r) ==
    LET ratio_mmdr == IF r.mmdr_ns > 0 THEN Quot(r.merman_ns, r.mmdr_ns) ELSE Infinite
    IN  IF r.js_ns = None \/ r.js_ns[1] <= 0
        THEN <<E2E \o <<"/">> \o r.name, pretty_time(r.merman_ns), pretty_time(r.mmdr_ns),
               Dash, fmt_ratio(ratio_mmdr), Dash>>
        ELSE <<E2E \o <<"/">> \o r.name, pretty_time(r.merman_ns), pretty_time(r.mmdr_ns),
               pretty_time(r.js_ns[1]), fmt_ratio(ratio_mmdr),
               fmt_ratio(Quot(r.merman_ns, r.js_ns[1]))>>

NoMatches == <<"(", "n", "o", " ", "m", "a", "t", "c", "h", "e", "s", ")">>

\* A variant that writes the rows in the order the benchmarks were run.
ResultLinesInRunOrder(rows) ==
    IF rows = <<>> THEN << <<NoMatches, Dash, Dash, Dash, Dash, Dash>> >>
    ELSE LET ran == SelectSeq(benches,
                              LAMBDA b : \E i \in DOMAIN rows :
                                             rows[i].name = Split(b, "/")[2])
         IN  [k \in DOMAIN ran |->
                 RowLine(CHOOSE r \in Range(rows) : r.name = Split(ran[k], "/")[2])]

\* lines 360-374: the lines of the Results table under its two header lines
ResultLines(rows) ==
    IF rows = <<>> THEN << <<NoMatches, Dash, Dash, Dash, Dash, Dash>> >>
    ELSE [i \in DOMAIN rows |-> RowLine(SortRows(rows)[i])]

Section(heading, names) == [heading |-> heading, names |-> names]

\* A variant that writes the three sections whatever their lists hold.
SectionsAlways(skipped_merman, missing_merman_, missing_mmdr_) ==
    << Section("Skipped (merman)",
               IF E2E \in DOMAIN skipped_merman THEN skipped_merman[E2E] ELSE <<>>),
       Section("Missing benches (merman)", missing_merman_),
       Section("Missing benches (mermaid-rs-renderer)", missing_mmdr_) >>

\* lines 390-420: the sections after the Notes, each with its heading and the
\* names it lists
Sections(skipped_merman, missing_merman_, missing_mmdr_) ==
    LET skipped == IF E2E \in DOMAIN skipped_merman THEN skipped_merman[E2E] ELSE <<>>
    IN  (IF skipped # <<>> THEN <<Section("Skipped (merman)", skipped)>> ELSE <<>>)
        \o (IF missing_merman_ # <<>>
            THEN <<Section("Missing benches (merman)", missing_merman_)>> ELSE <<>>)
        \o (IF missing_mmdr_ # <<>>
            THEN <<Section("Missing benches (mermaid-rs-renderer)", missing_mmdr_)>>
            ELSE <<>>)

(***************************************************************************)
(* Inputs of the parser: the lines a captured Criterion output is made of. *)
(* A quantity is written as its digits, a blank and its unit; val is the   *)
(* number it denotes.                                                      *)
(***************************************************************************)
MaxLines == 3

Q(num, val, unit) == [num |-> num, val |-> val, unit |-> unit]

Est(q) == [value |-> q.val, unit |-> q.unit]

Triple1 == << Q(<<"1">>, Val(1, 1), <<"m", "s">>),
              Q(<<"2", ".", "5">>, Val(5, 2), <<"m", "s">>),
              Q(<<"3">>, Val(3, 1), <<"m", "s">>) >>

Triple2 == << Q(<<"4">>, Val(4, 1), <<"micro", "s">>),
              Q(<<"5", ".", "0", "6">>, Val(253, 50), <<"micro", "s">>),
              Q(<<"7">>, Val(7, 1), <<"micro", "s">>) >>

OnePair == << Q(<<"9">>, Val(9, 1), <<"n", "s">>) >>

WellFormed == {Triple1, Triple2}
Malformed == {OnePair}
Bodies == WellFormed \cup Malformed

RECURSIVE BodyText(_)
BodyText(qs) ==
    IF qs = <<>> THEN <<>>
    ELSE Head(qs).num \o <<" ">> \o Head(qs).unit
           \o (IF Len(qs) > 1 THEN <<" ">> ELSE <<>>) \o BodyText(Tail(qs))

Groups == {<<"g">>, <<"h">>}
Names == {<<"a">>, <<"b">>}

NameLine(g, n) == g \o <<"/">> \o n
TimeLine(qs) == <<" ", " ">> \o TimeLit \o <<" ", " ", "[">> \o BodyText(qs) \o <<"]">>
InlineLine(g, n, qs) ==
    NameLine(g, n) \o <<" ", " ">> \o TimeLit \o <<" ", "[">> \o BodyText(qs) \o <<"]">>

EmptyLine == <<>>
\* "time: []": a bracket with nothing in it
EmptyBracket == TimeLit \o <<" ", "[", "]">>
\* "change: [1 ms]"-like: a bracket line that is not a time line
ChangeLine == <<"c", ":", " ", "[">> \o BodyText(OnePair) \o <<"]">>

NameLines == {NameLine(g, n) : g \in Groups, n \in Names}
TimeLines == {TimeLine(qs) : qs \in Bodies}
InlineLines == {InlineLine(g, n, qs) : g \in Groups, n \in Names, qs \in {Triple1, OnePair}}
Unrelated == {EmptyLine, EmptyBracket, ChangeLine}

Corpus == NameLines \cup TimeLines \cup InlineLines \cup Unrelated

(***************************************************************************)
(* The parser as a state machine: each step reads the next line.           *)
(***************************************************************************)
IdleParse == prefix = <<>> /\ text = <<>> /\ cur = None /\ times = <<>>
IdleExpand == parts = <<>> /\ filter_expr = <<>> /\ expanded = None

IdleTable == idx = 0 /\ out = <<>> /\ merman_times = <<>>
IdleMain ==
    /\ pc = "idle" /\ args_filter = <<>> /\ requested = <<>>
    /\ merman_benches = {} /\ mmdr_benches = {}
    /\ missing_merman = <<>> /\ missing_mmdr = <<>> /\ benches = <<>>
    /\ mmdr_times = <<>> /\ merman_out_all = <<>> /\ mermaid_js_results = <<>>
    /\ cmds = <<>> /\ failure = None /\ report = None
IdleFn == fn_arg = None /\ fn_out = <<>>
IdlePub ==
    /\ pub_pc = "idle" /\ pub_args = None /\ pub_tty = FALSE /\ pub_crates = <<>>
    /\ pub_i = 0 /\ pub_failures = <<>> /\ pub_log = <<>> /\ pub_exit = None
IdleStage ==
    /\ stage_pc = "idle" /\ args_fixtures = <<>> /\ fixtures = <<>> /\ stage_i = 0
    /\ merman_mid = None /\ stage_rows = <<>> /\ stage_cmds = <<>>
    /\ stage_failure = None /\ stage_out = None

InitParse ==
    /\ prefix \in Groups
    /\ text = <<>>
    /\ cur = None
    /\ times = <<>>
    /\ IdleExpand
    /\ IdleTable
    /\ IdleMain
    /\ IdleStage
    /\ IdleFn /\ IdlePub

ParseLine ==
    \E raw \in Corpus :
        /\ Len(text) < MaxLines
        /\ text' = Append(text, raw)
        /\ LET st == ParseStep([times |-> times, cur |-> cur], raw, prefix)
           IN  times' = st.times /\ cur' = st.cur
        /\ UNCHANGED <<pubVars, fnVars, stageVars, prefix, expandVars, tableVars, mainVars>>

NextParse == ParseLine

SpecParse == InitParse /\ [][NextParse]_vars

(***************************************************************************)
(* Properties of the parser.                                               *)
(***************************************************************************)
\* The line the current step reads, and whether the step reads one.
Reads == text' # text
ReadLine == text'[Len(text')]
LastLine == text[Len(text)]

WellFormedTimeLines == {TimeLine(qs) : qs \in WellFormed}
MalformedTimeLines == {TimeLine(qs) : qs \in Malformed}

\* C1: a time line read while a name is pending leaves the pending slot
\* empty, whether or not its body parsed; hence a well-formed time line that
\* directly follows a malformed time line records nothing.
C1_TimeLineClearsPending ==
    [][Reads =>
         /\ (ReadLine \in TimeLines /\ cur # None) => cur' = None
         /\ (text # <<>> /\ LastLine \in MalformedTimeLines
               /\ ReadLine \in WellFormedTimeLines) => times' = times]_vars

\* A malformed time line was read while a name was pending, and a
\* well-formed time line after it.
C1_Witness ==
    /\ Len(text) = 3
    /\ text[1] = NameLine(prefix, <<"a">>)
    /\ text[2] = TimeLine(OnePair)
    /\ text[3] = TimeLine(Triple1)
    /\ times = <<>>
    /\ cur = None

\* C2: a time line read while no name is pending changes neither the table
\* nor the pending slot.
C2_TimeLineWithoutPendingIgnored ==
    [][(Reads /\ ReadLine \in TimeLines /\ cur = None)
         => (times' = times /\ cur' = None)]_vars

\* A well-formed time line was read first, with nothing pending.
C2_Witness ==
    /\ Len(text) >= 1
    /\ text[1] \in WellFormedTimeLines
    /\ times = <<>>
    /\ cur = None

\* C3: a bare name line of the requested group sets the pending slot to its
\* name, whatever was pending; after two such name lines, a time line gives
\* its estimate to the second name only.
C3_NameLineReplacesPending ==
    [][Reads =>
         /\ \A n \in Names :
              ReadLine = NameLine(prefix, n) => (cur' = n /\ times' = times)
         /\ \A n1, n2 \in Names : \A qs \in WellFormed :
              (/\ Len(text) >= 2
               /\ text[Len(text) - 1] = NameLine(prefix, n1)
               /\ LastLine = NameLine(prefix, n2)
               /\ ReadLine = TimeLine(qs))
              => times' = Put(times, n2, Est(qs[2]))]_vars

\* Two different names of the group were read, then a time line: only the
\* second name has an estimate.
C3_Witness ==
    /\ Len(text) = 3
    /\ text[1] = NameLine(prefix, <<"a">>)
    /\ text[2] = NameLine(prefix, <<"b">>)
    /\ text[3] = TimeLine(Triple2)
    /\ DOMAIN times = {<<"b">>}

\* C4: an estimate is recorded only as the second quantity of the bracket
\* body of the line read, in the single-line and in the two-line layout; a
\* body of fewer than two quantities records nothing.
C4_MidPointRetained ==
    [][Reads =>
         /\ \A n \in Names : \A qs \in Bodies :
              ReadLine = InlineLine(prefix, n, qs)
              => times' = IF Len(qs) >= 2 THEN Put(times, n, Est(qs[2])) ELSE times
         /\ \A qs \in Bodies :
              (ReadLine = TimeLine(qs) /\ cur # None)
              => times' = IF Len(qs) >= 2 THEN Put(times, cur, Est(qs[2])) ELSE times
         /\ \A n \in DOMAIN times' :
              (n \notin DOMAIN times \/ times'[n] # times[n])
              => \E qs \in WellFormed : times'[n] = Est(qs[2])]_vars

\* Both layouts have recorded a mid-point.
C4_Witness ==
    /\ Len(text) = 3
    /\ text[1] = InlineLine(prefix, <<"a">>, Triple1)
    /\ text[2] = NameLine(prefix, <<"b">>)
    /\ text[3] = TimeLine(Triple2)
    /\ times = (<<"a">> :> Est(Triple1[2])) @@ (<<"b">> :> Est(Triple2[2]))

\* C5: a bare name line of the group, then only unrelated lines, then a
\* well-formed time line: the table holds exactly that name with the
\* mid-point of the time line.
C5_TwoLineLayout ==
    \A n \in Names : \A qs \in WellFormed :
        (/\ Len(text) >= 2
         /\ text[1] = NameLine(prefix, n)
         /\ \A i \in 2..(Len(text) - 1) : text[i] \in Unrelated
         /\ LastLine = TimeLine(qs))
        => times = (n :> Est(qs[2]))

\* The scenario with an unrelated line in between.
C5_Witness ==
    /\ Len(text) = 3
    /\ text[1] = NameLine(prefix, <<"a">>)
    /\ text[2] \in Unrelated
    /\ text[3] = TimeLine(Triple1)
    /\ times = (<<"a">> :> Est(Triple1[2]))

(***************************************************************************)
(* Inputs of the expander.  An expression is written from its parts:       *)
(* blanks before and after, a prefix, the alternatives and the             *)
(* punctuation that holds them (shape).                                    *)
(***************************************************************************)
MaxAlts == 3

ValidAlts == {<<"a">>, <<"b", "_", "1">>}
\* an alternative with a blank around it
PaddedAlts == {<<" ", "a">>}
\* an alternative with nothing in it
BlankAlts == {<<>>}
\* alternatives with a character outside the charset inside them
BadAlts == {<<"a", "!">>, <<"a", " ", "b">>}
AltPool == ValidAlts \cup PaddedAlts \cup BlankAlts \cup BadAlts

ValidPrefixes == {<<"g">>}
BadPrefixes == {<<"g", "!">>}
Blanks == {<<>>, <<" ">>}
Shapes == {"alternation", "bare", "unclosed", "trailing"}

RECURSIVE JoinAlts(_)
JoinAlts(alts) ==
    IF alts = <<>> THEN <<>>
    ELSE Head(alts) \o (IF Len(alts) > 1 THEN <<"|">> ELSE <<>>) \o JoinAlts(Tail(alts))

\* The expression without the blanks around it.
Core(pt) ==
    CASE pt.shape = "alternation" -> pt.pfx \o <<"/", "(">> \o JoinAlts(pt.alts) \o <<")">>
      [] pt.shape = "bare" -> pt.pfx \o <<"/">> \o JoinAlts(pt.alts)
      [] pt.shape = "unclosed" -> pt.pfx \o <<"/", "(">> \o JoinAlts(pt.alts)
      [] pt.shape = "trailing" -> pt.pfx \o <<"/", "(">> \o JoinAlts(pt.alts) \o <<")", "x">>

Written(pt) == pt.lead \o Core(pt) \o pt.trail

AltLists == UNION {[1..k -> AltPool] : k \in 0..MaxAlts}

FilterParts ==
    [lead : Blanks, pfx : ValidPrefixes \cup BadPrefixes, alts : AltLists,
     shape : Shapes, trail : Blanks]

(***************************************************************************)
(* The expander as a state machine: one call.                              *)
(***************************************************************************)
InitExpand ==
    /\ parts \in FilterParts
    /\ filter_expr = Written(parts)
    /\ expanded = None
    /\ IdleParse
    /\ IdleTable
    /\ IdleMain
    /\ IdleStage
    /\ IdleFn /\ IdlePub

Expand ==
    /\ expanded = None
    /\ expanded' = Some(expand_filter_to_exact_benches(filter_expr))
    /\ UNCHANGED <<pubVars, fnVars, stageVars, parts, filter_expr, parseVars, tableVars, mainVars>>

NextExpand == Expand

SpecExpand == InitExpand /\ [][NextExpand]_vars

(***************************************************************************)
(* Properties of the expander.                                             *)
(***************************************************************************)
\* The expression is exactly prefix/(alt1|...|altN), N >= 1.
ExactShape ==
    /\ parts.shape = "alternation"
    /\ parts.lead = <<>> /\ parts.trail = <<>>
    /\ parts.pfx \in ValidPrefixes
    /\ parts.alts # <<>>

Qualified(pfx, alts) == [i \in DOMAIN alts |-> pfx \o <<"/">> \o alts[i]]

\* C7: prefix/(alt1|...|altN) with every alternative in the charset expands
\* to [prefix/alt1, ..., prefix/altN], in the order written.
C7_ExpandsAlternation ==
    (/\ expanded # None
     /\ ExactShape
     /\ \A i \in DOMAIN parts.alts : parts.alts[i] \in ValidAlts)
    => expanded = Some(Qualified(parts.pfx, parts.alts))

\* An alternation of three alternatives, one of them repeated, was expanded.
C7_Witness ==
    /\ expanded # None
    /\ ExactShape
    /\ parts.alts = << <<"a">>, <<"b", "_", "1">>, <<"a">> >>
    /\ Len(expanded[1]) = 3

\* The alternation pattern does not match the expression.
NoShape == ~ExactShape
\* Some alternative holds a character outside letters, digits, _ and -.
OutsideCharset == \E i \in DOMAIN parts.alts : parts.alts[i] \in BadAlts \cup PaddedAlts
\* There is no alternative at all.
NoAlternative == \A i \in DOMAIN parts.alts : parts.alts[i] \in BlankAlts

\* C8 as stated: in each of the three cases the result is the one-element
\* list of the expression as given.
C8_FallbackUnchanged ==
    (expanded # None /\ (NoShape \/ OutsideCharset \/ NoAlternative))
    => expanded = Some(<<filter_expr>>)

\* The pattern does not match the expression once the blanks around it are
\* removed.
NoShapeStripped ==
    \/ parts.shape # "alternation"
    \/ parts.pfx \notin ValidPrefixes
    \/ parts.alts = <<>>
\* Some alternative, the blanks around it removed, holds a character outside
\* the charset.
OutsideCharsetStripped == \E i \in DOMAIN parts.alts : parts.alts[i] \in BadAlts
\* No alternative is left once the blank ones are dropped.
NoAlternativeStripped ==
    \A i \in DOMAIN parts.alts : parts.alts[i] \in BlankAlts

\* C8, amended: blanks around the expression and around an alternative are
\* removed first; in each of the three cases the result is the one-element
\* list of the expression without the blanks around it.
C8_FallbackStripped ==
    (expanded # None /\ (NoShapeStripped \/ OutsideCharsetStripped \/ NoAlternativeStripped))
    => expanded = Some(<<Core(parts)>>)

\* An alternation with an alternative outside the charset, written with a
\* blank before it, fell back to the expression without the blank.
C8_Witness ==
    /\ expanded # None
    /\ parts.shape = "alternation"
    /\ parts.pfx \in ValidPrefixes
    /\ parts.lead = <<" ">>
    /\ parts.alts = << <<"a">>, <<"a", "!">> >>
    /\ expanded = Some(<<Core(parts)>>)
    /\ expanded # Some(<<filter_expr>>)

(***************************************************************************)
(* A TimingTable over successive invocations: the loop of main, lines      *)
(* 525-540, for one implementation.  Each step captures one output and     *)
(* merges what the parser makes of it into the table.                      *)
(***************************************************************************)
MaxRuns == 3
MaxOutLines == 2

TableCorpus ==
    {InlineLine(<<"g">>, <<"a">>, Triple1), InlineLine(<<"g">>, <<"a">>, Triple2),
     InlineLine(<<"g">>, <<"a">>, OnePair), InlineLine(<<"g">>, <<"b">>, Triple1),
     InlineLine(<<"h">>, <<"a">>, Triple2)}

Outputs == UNION {[1..k -> TableCorpus] : k \in 0..MaxOutLines}

InitTable ==
    /\ prefix = <<"g">>
    /\ text = <<>> /\ cur = None /\ times = <<>>
    /\ IdleExpand
    /\ IdleTable
    /\ IdleMain
    /\ IdleStage
    /\ IdleFn /\ IdlePub

Invocation ==
    \E o \in Outputs :
        /\ idx < MaxRuns
        /\ idx' = idx + 1
        /\ out' = o
        /\ merman_times' = Update(merman_times, parse_criterion_times(o, prefix))
        /\ UNCHANGED <<pubVars, fnVars, stageVars, parseVars, expandVars, mainVars>>

NextTable == Invocation

SpecTable == InitTable /\ [][NextTable]_vars

\* The lines of an output that hold a parseable estimate for name n.
Parsed(o, n) ==
    {i \in DOMAIN o : \E qs \in WellFormed : o[i] = InlineLine(prefix, n, qs)}

\* The estimate written on a line of Parsed(o, n).
EstimateOn(line, n) ==
    Est((CHOOSE qs \in WellFormed : line = InlineLine(prefix, n, qs))[2])

\* C6: after an output is merged, the entry of a name is the latest estimate
\* parsed for it in that output, and when the output holds none (no line for
\* the name, or only unparseable ones) the entry is as it was before.
C6_LastWriteWins ==
    [][idx' # idx =>
         \A n \in Names :
            LET occ == Parsed(out', n)
                last == CHOOSE i \in occ : \A j \in occ : j <= i
            IN  IF occ = {}
                THEN /\ (n \in DOMAIN merman_times') = (n \in DOMAIN merman_times)
                     /\ n \in DOMAIN merman_times => merman_times'[n] = merman_times[n]
                ELSE /\ n \in DOMAIN merman_times'
                     /\ merman_times'[n] = EstimateOn(out'[last], n)]_vars

\* The second invocation printed a parsed line for a name and an unparseable
\* one after it; the entry of the other name is from the first invocation.
C6_Witness ==
    /\ idx = 2
    /\ out = <<InlineLine(<<"g">>, <<"a">>, Triple2), InlineLine(<<"g">>, <<"a">>, OnePair)>>
    /\ merman_times = (<<"a">> :> Est(Triple2[2])) @@ (<<"b">> :> Est(Triple1[2]))

(***************************************************************************)
(* main.  The run is cut at its external invocations; what the environment *)
(* answers (exit status, captured output, files) is chosen at each.        *)
(***************************************************************************)
MaxBenchLines == 1

Bench(g, n) == g \o <<"/">> \o n

\* The benchmarks a repository may list, in the order it lists them.
BenchOrder == <<Bench(E2E, <<"a">>), Bench(E2E, <<"b">>), Bench(<<"h">>, <<"a">>)>>
BenchUniverse == Range(BenchOrder)

\* The output of `cargo bench ... -- --list` of a repository with benchmarks S.
ListOutput(S) ==
    [i \in DOMAIN SelectSeq(BenchOrder, LAMBDA b : b \in S) |->
        SelectSeq(BenchOrder, LAMBDA b : b \in S)[i] \o <<":", " ">> \o BenchmarkLit]
      \o << <<"2", " ", "b", "e", "n", "c", "h", "m", "a", "r", "k", "s">> >>

\* The values of --filter.
MainFilters ==
    {E2E \o <<"/", "(", "a", "|", "b", ")">>,
     E2E \o <<"/", "(", "b", "|", "a", ")">>,
     E2E \o <<"/", "a">>,
     E2E \o <<"/", "(", "a", "|", "b", "!", ")">>,
     <<"h", "/", "(", "a", ")">>}

TripleU == << Q(<<"1", "0">>, Val(10, 1), <<"u", "s">>),
              Q(<<"2", "0", ".", "2", "5">>, Val(81, 4), <<"u", "s">>),
              Q(<<"3", "0">>, Val(30, 1), <<"u", "s">>) >>

\* An estimate in a unit to_nanos does not know, and one of no time at all.
TripleX == << Q(<<"4">>, Val(4, 1), <<"x", "s">>),
              Q(<<"5">>, Val(5, 1), <<"x", "s">>),
              Q(<<"6">>, Val(6, 1), <<"x", "s">>) >>

TripleZ == << Q(<<"0">>, Val(0, 1), <<"n", "s">>),
              Q(<<"0">>, Val(0, 1), <<"n", "s">>),
              Q(<<"0">>, Val(0, 1), <<"n", "s">>) >>

\* The line of a fixture that merman's pre-check skipped.
SkipLine(g, n) == SkipLit \o g \o <<"]", " ">> \o n \o <<":", " ", "e", "r", "r">>

\* The estimates an invocation may report for a benchmark.
BenchBodies(exact) ==
    IF exact = Bench(E2E, <<"a">>) THEN {TripleU, TripleZ}
    ELSE IF exact = Bench(E2E, <<"b">>) THEN {Triple2, TripleX}
    ELSE {TripleU}

\* The lines an invocation with `--exact exact` may print: timing lines of
\* that benchmark.
BenchCorpus(exact) ==
    {InlineLine(PrefixOf(exact), Split(exact, "/")[2], qs) : qs \in BenchBodies(exact)}

BenchOutputs(exact) == UNION {[1..k -> BenchCorpus(exact)] : k \in 0..MaxBenchLines}

\* merman prints the skips of its pre-check as well.
MermanOutputs(exact) ==
    UNION {[1..k -> BenchCorpus(exact) \cup {SkipLine(E2E, <<"b">>)}] :
              k \in 0..MaxBenchLines}

\* What a failing invocation may have printed.
FailOutputs == {<<>>, << <<"e", "r", "r", "o", "r">> >>}

\* The results object of the mermaid-js output file: name -> median_ns.
JsResults ==
    {<<>>,
     (<<"a">> :> Val(1500, 1)),
     (<<"a">> :> Val(1500, 1)) @@ (<<"b">> :> 0)}

\* What `git rev-parse HEAD` may do: exit nonzero, or print a revision.
GitOutcomes ==
    {[ok |-> FALSE, out |-> <<"f", "a", "t", "a", "l">>],
     [ok |-> TRUE, out |-> <<"c", "0", "d", "e">>]}

\* git_head, lines 105-110
git_head(g) == IF g.ok /\ g.out # <<>> THEN Some(g.out) ELSE None

\* An external invocation that exited with status 0, and one that exited
\* nonzero after printing stdout.
Cmd(tool, mode, exact) == [tool |-> tool, mode |-> mode, exact |-> exact, failed |-> None]
CmdFailed(tool, mode, exact, stdout) ==
    [tool |-> tool, mode |-> mode, exact |-> exact, failed |-> Some(stdout)]

GitCmd(g) ==
    IF g.ok THEN Cmd("git", "rev-parse", None) ELSE CmdFailed("git", "rev-parse", None, g.out)

\* A variant of run that raises without the output.
RunFailedBare(at, stdout) == Some([kind |-> "RuntimeError", at |-> at, stdout |-> <<>>])

\* run, lines 77-81: RuntimeError with the captured output attached
RunFailed(at, stdout) == Some([kind |-> "RuntimeError", at |-> at, stdout |-> stdout])

InitMain ==
    /\ pc = "start"
    /\ args_filter \in MainFilters
    /\ requested = <<>>
    /\ merman_benches = {} /\ mmdr_benches = {}
    /\ missing_merman = <<>> /\ missing_mmdr = <<>> /\ benches = <<>>
    /\ mmdr_times = <<>> /\ merman_out_all = <<>> /\ mermaid_js_results = <<>>
    /\ cmds = <<>> /\ failure = None /\ report = None
    /\ IdleParse /\ IdleExpand /\ IdleTable /\ IdleStage /\ IdleFn /\ IdlePub

\* lines 457-463: without the checkout the run ends; else the filter is expanded
MissingCheckout ==
    /\ pc = "start"
    /\ pc' = "exit"
    /\ failure' = Some([kind |-> "SystemExit", at |-> "start"])
    /\ UNCHANGED <<pubVars, fnVars, stageVars, parseVars, expandVars, tableVars, args_filter, requested,
                   merman_benches, mmdr_benches, missing_merman, missing_mmdr, benches,
                   mmdr_times, merman_out_all, mermaid_js_results, cmds, report>>

ExpandFilter ==
    /\ pc = "start"
    /\ requested' = expand_filter_to_exact_benches(args_filter)
    /\ pc' = "list_merman"
    /\ UNCHANGED <<pubVars, fnVars, stageVars, parseVars, expandVars, tableVars, args_filter,
                   merman_benches, mmdr_benches, missing_merman, missing_mmdr, benches,
                   mmdr_times, merman_out_all, mermaid_js_results, cmds, failure, report>>

\* lines 467-472
ListMerman ==
    /\ pc = "list_merman"
    /\ cmds' = Append(cmds, Cmd("merman", "list", None))
    /\ \E S \in SUBSET BenchUniverse :
          /\ merman_benches' = ListedBenches(ListOutput(S))
          /\ pc' = "list_mmdr"
    /\ UNCHANGED <<pubVars, fnVars, stageVars, parseVars, expandVars, tableVars, args_filter, requested,
                   mmdr_benches, missing_merman, missing_mmdr, benches,
                   mmdr_times, merman_out_all, mermaid_js_results, failure, report>>

\* lines 473-478
ListMmdr ==
    /\ pc = "list_mmdr"
    /\ cmds' = Append(cmds, Cmd("mmdr", "list", None))
    /\ \E S \in SUBSET BenchUniverse :
          /\ mmdr_benches' = ListedBenches(ListOutput(S))
          /\ pc' = "reconcile"
    /\ UNCHANGED <<pubVars, fnVars, stageVars, parseVars, expandVars, tableVars, args_filter, requested,
                   merman_benches, missing_merman, missing_mmdr, benches,
                   mmdr_times, merman_out_all, mermaid_js_results, failure, report>>

\* lines 277 and 77-81: a --list invocation that exits nonzero
ListFails ==
    /\ pc \in {"list_merman", "list_mmdr"}
    /\ pc' = "failed"
    /\ \E o \in FailOutputs :
          /\ cmds' = Append(cmds, CmdFailed(IF pc = "list_merman" THEN "merman" ELSE "mmdr",
                                            "list", None, o))
          /\ failure' = RunFailed(pc, o)
    /\ UNCHANGED <<pubVars, fnVars, stageVars, parseVars, expandVars, tableVars, args_filter, requested,
                   merman_benches, mmdr_benches, missing_merman, missing_mmdr, benches,
                   mmdr_times, merman_out_all, mermaid_js_results, report>>

\* A variant that takes a benchmark for runnable when either repository has it.
ReconciledEither(req, mb, rb) ==
    LET bs == SelectSeq(req, LAMBDA b : b \in mb \/ b \in rb)
    IN  [missing_merman |-> sorted(SelectSeq(req, LAMBDA b : b \notin mb)),
         missing_mmdr |-> sorted(SelectSeq(req, LAMBDA b : b \notin rb)),
         benches |-> bs,
         stop |-> bs = <<>>]

\* A variant that stops as soon as a requested benchmark is missing somewhere.
ReconciledStopsOnMissing(req, mb, rb) ==
    LET bs == SelectSeq(req, LAMBDA b : b \in mb /\ b \in rb)
    IN  [missing_merman |-> sorted(SelectSeq(req, LAMBDA b : b \notin mb)),
         missing_mmdr |-> sorted(SelectSeq(req, LAMBDA b : b \notin rb)),
         benches |-> bs,
         stop |-> Len(bs) < Len(req)]

\* lines 479-482: the missing lists, the runnable list, and whether to stop
Reconciled(req, mb, rb) ==
    LET bs == SelectSeq(req, LAMBDA b : b \in mb /\ b \in rb)
    IN  [missing_merman |-> sorted(SelectSeq(req, LAMBDA b : b \notin mb)),
         missing_mmdr |-> sorted(SelectSeq(req, LAMBDA b : b \notin rb)),
         benches |-> bs,
         stop |-> bs = <<>>]

\* lines 479-488
Reconcile ==
    /\ pc = "reconcile"
    /\ LET r == Reconciled(requested, merman_benches, mmdr_benches)
       IN  /\ missing_merman' = r.missing_merman
           /\ missing_mmdr' = r.missing_mmdr
           /\ benches' = r.benches
           /\ IF r.stop
              THEN /\ pc' = "exit"
                   /\ failure' = Some([kind |-> "SystemExit", at |-> "reconcile",
                                       filter |-> args_filter,
                                       missing_merman |-> r.missing_merman,
                                       missing_mmdr |-> r.missing_mmdr])
              ELSE /\ pc' = "bench_merman"
                   /\ failure' = failure
    /\ UNCHANGED <<pubVars, fnVars, stageVars, parseVars, expandVars, tableVars, args_filter, requested,
                   merman_benches, mmdr_benches, mmdr_times, merman_out_all,
                   mermaid_js_results, cmds, report>>

\* A variant that leaves the output of the merman invocation unmerged when
\* the mmdr invocation starts.
BenchMermanUnmerged ==
    /\ pc = "bench_merman"
    /\ cmds' = Append(cmds, Cmd("merman", "exact", benches[idx + 1]))
    /\ \E o \in MermanOutputs(benches[idx + 1]) : merman_out_all' = Append(merman_out_all, o)
    /\ pc' = "bench_mmdr"
    /\ UNCHANGED <<pubVars, fnVars, stageVars, parseVars, expandVars, idx, out, merman_times, args_filter,
                   requested, merman_benches, mmdr_benches, missing_merman, missing_mmdr,
                   benches, mmdr_times, mermaid_js_results, failure, report>>

\* lines 528-540: the merman invocation of benches[idx + 1]
BenchMerman ==
    /\ pc = "bench_merman"
    /\ cmds' = Append(cmds, Cmd("merman", "exact", benches[idx + 1]))
    /\ \E o \in MermanOutputs(benches[idx + 1]) :
          /\ merman_out_all' = Append(merman_out_all, o)
          /\ merman_times' =
                Update(merman_times, parse_criterion_times(o, PrefixOf(benches[idx + 1])))
    /\ pc' = "bench_mmdr"
    /\ UNCHANGED <<pubVars, fnVars, stageVars, parseVars, expandVars, idx, out, args_filter, requested,
                   merman_benches, mmdr_benches, missing_merman, missing_mmdr, benches,
                   mmdr_times, mermaid_js_results, failure, report>>

\* lines 542-553: the mmdr invocation of benches[idx + 1], and the loop test
BenchMmdr ==
    /\ pc = "bench_mmdr"
    /\ cmds' = Append(cmds, Cmd("mmdr", "exact", benches[idx + 1]))
    /\ \E o \in BenchOutputs(benches[idx + 1]) :
          mmdr_times' =
              Update(mmdr_times, parse_criterion_times(o, PrefixOf(benches[idx + 1])))
    /\ idx' = idx + 1
    /\ pc' = IF idx + 1 < Len(benches) THEN "bench_merman" ELSE "mermaid_js"
    /\ UNCHANGED <<pubVars, fnVars, stageVars, parseVars, expandVars, out, merman_times, args_filter, requested,
                   merman_benches, mmdr_benches, missing_merman, missing_mmdr, benches,
                   merman_out_all, mermaid_js_results, failure, report>>

\* lines 518 and 77-81: a benchmark invocation that exits nonzero
BenchFails ==
    /\ pc \in {"bench_merman", "bench_mmdr"}
    /\ \E o \in FailOutputs :
          /\ cmds' = Append(cmds, CmdFailed(IF pc = "bench_merman" THEN "merman" ELSE "mmdr",
                                            "exact", benches[idx + 1], o))
          /\ failure' = RunFailed(pc, o)
    /\ pc' = "failed"
    /\ UNCHANGED <<pubVars, fnVars, stageVars, parseVars, expandVars, tableVars, args_filter, requested,
                   merman_benches, mmdr_benches, missing_merman, missing_mmdr, benches,
                   mmdr_times, merman_out_all, mermaid_js_results, report>>

\* lines 560 and 642-643: no tools/mermaid-cli directory
MermaidJsMissing ==
    /\ pc = "mermaid_js"
    /\ pc' = "report"
    /\ UNCHANGED <<pubVars, fnVars, stageVars, parseVars, expandVars, tableVars, args_filter, requested,
                   merman_benches, mmdr_benches, missing_merman, missing_mmdr, benches,
                   mmdr_times, merman_out_all, mermaid_js_results, cmds, failure, report>>

\* lines 594-612: the node invocation exits nonzero; its output file is not read
MermaidJsFails ==
    /\ pc = "mermaid_js"
    /\ \E o \in FailOutputs : cmds' = Append(cmds, CmdFailed("node", "bench", None, o))
    /\ mermaid_js_results' = <<>>
    /\ pc' = "report"
    /\ UNCHANGED <<pubVars, fnVars, stageVars, parseVars, expandVars, tableVars, args_filter, requested,
                   merman_benches, mmdr_benches, missing_merman, missing_mmdr, benches,
                   mmdr_times, merman_out_all, failure, report>>

\* lines 594-623: the node invocation succeeds; the positive medians of its
\* output file, when there is one, are the results
MermaidJsRuns ==
    /\ pc = "mermaid_js"
    /\ cmds' = Append(cmds, Cmd("node", "bench", None))
    /\ \E data \in JsResults :
          mermaid_js_results' =
              [n \in {m \in DOMAIN data : data[m] > 0} |-> data[n]]
    /\ pc' = "report"
    /\ UNCHANGED <<pubVars, fnVars, stageVars, parseVars, expandVars, tableVars, args_filter, requested,
                   merman_benches, mmdr_benches, missing_merman, missing_mmdr, benches,
                   mmdr_times, merman_out_all, failure, report>>

\* A variant that joins the three sources alike: no row without a mermaid-js
\* result.
RowsInnerJoinOfThree ==
    LET common_names == SortedSet((DOMAIN merman_times \cap DOMAIN mmdr_times)
                                     \cap DOMAIN mermaid_js_results)
    IN  [i \in DOMAIN common_names |->
            [name |-> common_names[i],
             merman_ns |-> to_nanos(merman_times[common_names[i]]),
             mmdr_ns |-> to_nanos(mmdr_times[common_names[i]]),
             js_ns |-> Some(mermaid_js_results[common_names[i]])]]

\* lines 645-656
Rows ==
    LET common_names == SortedSet(DOMAIN merman_times \cap DOMAIN mmdr_times)
    IN  [i \in DOMAIN common_names |->
            [name |-> common_names[i],
             merman_ns |-> to_nanos(merman_times[common_names[i]]),
             mmdr_ns |-> to_nanos(mmdr_times[common_names[i]]),
             js_ns |-> IF common_names[i] \in DOMAIN mermaid_js_results
                       THEN Some(mermaid_js_results[common_names[i]])
                       ELSE None]]

\* lines 652-653: to_nanos raises ValueError on a unit it does not know
RowsRaise ==
    \E n \in DOMAIN merman_times \cap DOMAIN mmdr_times :
        \/ UnitKey(merman_times[n].unit) \notin KnownUnits
        \/ UnitKey(mmdr_times[n].unit) \notin KnownUnits

\* lines 645-687: the rows (to_nanos may raise), the two `git rev-parse HEAD`
\* invocations, whose failure git_head turns into None, and write_markdown
WriteReport ==
    /\ pc = "report"
    /\ IF RowsRaise
       THEN /\ pc' = "failed"
            /\ failure' = Some([kind |-> "ValueError", at |-> "report"])
            /\ UNCHANGED <<cmds, report>>
       ELSE /\ pc' = "done"
            /\ failure' = failure
            /\ LET rows == Rows
                   results == ResultLines(rows)
                   sections == Sections(parse_skip_lines(merman_out_all),
                                        missing_merman, missing_mmdr)
               IN  \E g1 \in GitOutcomes, g2 \in GitOutcomes :
                      /\ cmds' = cmds \o <<GitCmd(g1), GitCmd(g2)>>
                      /\ report' = Some([filter_expr |-> args_filter,
                                         exact_benches |-> benches,
                                         rows |-> rows,
                                         results |-> results,
                                         sections |-> sections,
                                         merman_rev |-> git_head(g1),
                                         mmdr_rev |-> git_head(g2),
                                         missing_merman |-> missing_merman,
                                         missing_mmdr |-> missing_mmdr])
    /\ UNCHANGED <<pubVars, fnVars, stageVars, parseVars, expandVars, tableVars, args_filter, requested,
                   merman_benches, mmdr_benches, missing_merman, missing_mmdr, benches,
                   mmdr_times, merman_out_all, mermaid_js_results>>

NextMain ==
    \/ MissingCheckout \/ ExpandFilter
    \/ ListMerman \/ ListMmdr \/ ListFails
    \/ Reconcile
    \/ BenchMerman \/ BenchMmdr \/ BenchFails
    \/ MermaidJsMissing \/ MermaidJsFails \/ MermaidJsRuns
    \/ WriteReport

SpecMain == InitMain /\ [][NextMain]_vars

(***************************************************************************)
(* Properties of the reconciliation.                                       *)
(***************************************************************************)
\* The run has passed lines 479-482.
ReconciliationDone ==
    \/ pc \in {"bench_merman", "bench_mmdr", "mermaid_js", "report", "done"}
    \/ failure # None /\ failure[1].at \in {"reconcile", "bench_merman", "bench_mmdr", "report"}

\* The requested names both repositories list.
RunnableSet == (Range(requested) \cap merman_benches) \cap mmdr_benches

\* C9: runnable is the requested names both sources list, each missing list
\* is the requested names its source does not list, runnable is disjoint
\* from both missing lists, and the three cover the request.
C9_ReconciliationPartitions ==
    ReconciliationDone =>
        LET R == Range(requested)
            run == Range(benches)
            mm == Range(missing_merman)
            mr == Range(missing_mmdr)
        IN  /\ run = {b \in R : b \in merman_benches /\ b \in mmdr_benches}
            /\ mm = {b \in R : b \notin merman_benches}
            /\ mr = {b \in R : b \notin mmdr_benches}
            /\ run \cap mm = {} /\ run \cap mr = {}
            /\ R = run \cup mm \cup mr

\* Two names requested, merman lists the first only, mmdr lists both.
C9_Witness ==
    /\ ReconciliationDone
    /\ requested = <<Bench(E2E, <<"a">>), Bench(E2E, <<"b">>)>>
    /\ merman_benches = {Bench(E2E, <<"a">>)}
    /\ mmdr_benches = {Bench(E2E, <<"a">>), Bench(E2E, <<"b">>)}
    /\ benches = <<Bench(E2E, <<"a">>)>>
    /\ missing_merman = <<Bench(E2E, <<"b">>)>>
    /\ missing_mmdr = <<>>

\* The run ended at line 483.
HardStopped == pc = "exit" /\ failure # None /\ failure[1].at = "reconcile"

\* The names of the --exact invocations of a tool, in order.
ExactNames(tool) ==
    LET cs == SelectSeq(cmds, LAMBDA c : c.mode = "exact" /\ c.tool = tool)
    IN  [i \in DOMAIN cs |-> cs[i].exact]

\* C10: the run stops at the reconciliation exactly when no requested name is
\* listed by both repositories; then the failure carries both missing lists,
\* no --exact invocation was made and no report is written.  Otherwise only
\* runnable names are invoked, and a report that is written follows the
\* invocation of exactly the runnable names, in request order, for both
\* tools, and holds both missing lists.
C10_HardStopIffNothingRunnable ==
    ReconciliationDone =>
        /\ HardStopped <=> RunnableSet = {}
        /\ HardStopped =>
              /\ Range(failure[1].missing_merman) = Range(requested) \ merman_benches
              /\ Range(failure[1].missing_mmdr) = Range(requested) \ mmdr_benches
              /\ \A i \in DOMAIN cmds : cmds[i].mode # "exact"
              /\ report = None
        /\ \A i \in DOMAIN cmds : cmds[i].mode = "exact" => cmds[i].exact \in RunnableSet
        /\ report # None =>
              /\ ExactNames("merman") = SelectSeq(requested, LAMBDA b : b \in RunnableSet)
              /\ ExactNames("mmdr") = SelectSeq(requested, LAMBDA b : b \in RunnableSet)
              /\ Range(report[1].missing_merman) = Range(requested) \ merman_benches
              /\ Range(report[1].missing_mmdr) = Range(requested) \ mmdr_benches

\* A report was written although merman lacks a requested name: the names
\* both repositories list were run.
C10_Witness ==
    /\ pc = "done"
    /\ report # None
    /\ RunnableSet # {}
    /\ report[1].missing_merman # <<>>
    /\ ExactNames("merman") = benches

(***************************************************************************)
(* Properties of the comparison rows.                                      *)
(***************************************************************************)
\* The names of the rows of the written report.
RowNames == {report[1].rows[i].name : i \in DOMAIN report[1].rows}

\* C11: the rows of a written report are the names both the merman and the
\* mmdr table hold, one row each, whatever the mermaid-js results hold; the
\* third value of a row is the mermaid-js result of its name when there is
\* one and absent otherwise.
C11_RowsJoinMandatorySources ==
    report # None =>
        /\ RowNames = DOMAIN merman_times \cap DOMAIN mmdr_times
        /\ Len(report[1].rows) = Cardinality(RowNames)
        /\ \A i \in DOMAIN report[1].rows :
              LET r == report[1].rows[i]
              IN  /\ r.name \in DOMAIN mermaid_js_results
                        => r.js_ns = Some(mermaid_js_results[r.name])
                  /\ r.name \notin DOMAIN mermaid_js_results => r.js_ns = None

\* Two rows, of which only the first has a mermaid-js result.
C11_Witness ==
    /\ report # None
    /\ Len(report[1].rows) = 2
    /\ report[1].rows[1].js_ns # None
    /\ report[1].rows[2].js_ns = None
    /\ DOMAIN mermaid_js_results = {<<"a">>}

(***************************************************************************)
(* Properties of the run around the mermaid-js source and the report.      *)
(***************************************************************************)
\* The run has passed lines 557-643.
PastMermaidJs ==
    \/ pc \in {"report", "done"}
    \/ failure # None /\ failure[1].at = "report"

\* The run is over after line 645 was reached: the report is written, or
\* building the rows raised.
RunOverAfterRows ==
    \/ pc = "done"
    \/ failure # None /\ failure[1].at = "report"

NodeCmds == SelectSeq(cmds, LAMBDA c : c.tool = "node")

\* The tool directory was missing (no node invocation), or the node
\* invocation exited nonzero.
ThirdSourceDown ==
    /\ PastMermaidJs
    /\ \/ NodeCmds = <<>>
       \/ NodeCmds[1].failed # None

\* C12: when the mermaid-js directory is missing or the node invocation
\* exits nonzero, no mermaid-js result is read, and the run ends with a
\* written report that has a line for every name of both mandatory tables,
\* each with `-` in the mermaid-js time cell and in the mermaid-js ratio cell.
C12_ReportDespiteThirdSourceDown ==
    ThirdSourceDown =>
        /\ mermaid_js_results = <<>>
        /\ RunOverAfterRows =>
              /\ report # None
              /\ RowNames = DOMAIN merman_times \cap DOMAIN mmdr_times
              /\ RowNames # {} => Len(report[1].results) = Cardinality(RowNames)
              /\ \A i \in DOMAIN report[1].results :
                    /\ report[1].results[i][4] = Dash
                    /\ report[1].results[i][6] = Dash

\* C14: an estimate whose unit is not a spelling to_nanos knows never gets
\* into a table, and no run fails on one: building the rows does not raise.
C14_UnknownUnitStaysInItsParse ==
    /\ \A n \in DOMAIN merman_times : UnitKey(merman_times[n].unit) \in KnownUnits
    /\ \A n \in DOMAIN mmdr_times : UnitKey(mmdr_times[n].unit) \in KnownUnits
    /\ ~(failure # None /\ failure[1].kind = "ValueError")

(***************************************************************************)
(* Properties of failing invocations.                                      *)
(***************************************************************************)
\* The invocation cmds[i] exited nonzero and ended the run there: it is the
\* last invocation, no report is written, and the failure holds its output.
AbortedAt(i) ==
    /\ i = Len(cmds)
    /\ report = None
    /\ pc = "failed"
    /\ failure # None
    /\ failure[1].kind = "RuntimeError"
    /\ failure[1].stdout = cmds[i].failed[1]

\* C13 as stated: whichever invocation exits nonzero, the run is aborted at it.
C13_AnyNonzeroAborts ==
    \A i \in DOMAIN cmds : cmds[i].failed # None => AbortedAt(i)

\* C13, amended: a cargo invocation (--list or --exact, of either repository)
\* that exits nonzero aborts the run at it, with its captured output in the
\* failure; a node or git invocation that exits nonzero leaves no failure
\* behind and the run goes on.
C13_CargoNonzeroAborts ==
    \A i \in DOMAIN cmds :
        cmds[i].failed # None =>
            IF cmds[i].tool \in {"merman", "mmdr"}
            THEN AbortedAt(i)
            ELSE /\ cmds[i].tool \in {"node", "git"}
                 /\ pc # "exit"
                 /\ failure # None => failure[1].kind = "ValueError"
                 /\ cmds[i].tool = "node" => PastMermaidJs /\ mermaid_js_results = <<>>
                 /\ cmds[i].tool = "git" => pc = "done" /\ report # None

\* The mmdr invocation of the second benchmark exited nonzero after it had
\* printed something, the three invocations before it having succeeded.
C13_Witness ==
    /\ pc = "failed"
    /\ Len(cmds) = 6
    /\ cmds[6].tool = "mmdr" /\ cmds[6].mode = "exact"
    /\ cmds[6].failed # None /\ cmds[6].failed[1] # <<>>
    /\ failure[1].stdout = cmds[6].failed[1]
    /\ DOMAIN merman_times # {}
    /\ report = None

(***************************************************************************)
(* stage_spotcheck.py.  Duration.micros is held in nanoseconds with        *)
(* FracDigits decimals, the scale of TimeEstimate.to_nanos: the integer m  *)
(* stands for m / (1000 * FracScale) microseconds.                         *)
(***************************************************************************)
Duration(micros, raw) == [micros |-> micros, raw |-> raw]

\* A raised exception, and a returned value.
Raised(kind) == [ok |-> FALSE, kind |-> kind]
Returned(v) == [ok |-> TRUE, value |-> v]

\* float(num) for num of digits and dots: None when float raises ValueError
StageFloat(num) ==
    LET dots == {i \in DOMAIN num : num[i] = "."}
    IN  IF Cardinality(dots) > 1 \/ Cardinality(dots) = Len(num) THEN None
        ELSE IF dots = {} THEN Some(IntVal(num) * FracScale)
        ELSE LET d == CHOOSE i \in dots : TRUE
                 frac == From(num, d + 1)
             IN  Some(IntVal(SubSeq(num, 1, d - 1)) * FracScale
                        + (IntVal(frac) * FracScale) \div Pow10(Len(frac)))

StageUnits == {<<"n", "s">>, <<"micro", "s">>, <<"u", "s">>, <<"m", "s">>, <<"s">>}

\* parse_duration, lines 41-60:  ^(?P<num>[0-9.]+)\s*(?P<unit>ns|µs|us|ms|s)$
parse_duration(token) ==
    LET t == strip(token)
        n == SkipWhile(t, 1, Digit \cup {"."})
        unit == From(t, SkipWhile(t, n, Space))
    IN  IF n = 1 \/ unit \notin StageUnits THEN Raised("ValueError")
        ELSE IF StageFloat(SubSeq(t, 1, n - 1)) = None THEN Raised("ValueError")
        ELSE LET num == StageFloat(SubSeq(t, 1, n - 1))[1]
             IN  Returned(Duration(
                     CASE unit = <<"n", "s">> -> num
                       [] unit \in {<<"micro", "s">>, <<"u", "s">>} -> num * 1000
                       [] unit = <<"m", "s">> -> num * 1000000
                       [] unit = <<"s">> -> num * 1000000000,
                     t))

\* s.split(): the words between runs of whitespace
RECURSIVE Words(_)
Words(s) ==
    LET a == SkipWhile(s, 1, Space)
        b == SkipWhile(s, a, Range(s) \ Space)
    IN  IF a > Len(s) THEN <<>>
        ELSE <<SubSeq(s, a, b - 1)>> \o Words(From(s, b))

\* extract_mid_time.parse_body, lines 88-103
parse_body(body) ==
    LET ws == Words(body)
    IN  IF Len(ws) = 6 THEN parse_duration(ws[3] \o <<" ">> \o ws[4])
        ELSE IF Len(ws) = 3 THEN parse_duration(ws[2])
        ELSE Raised("RuntimeError")

\* \s+\[(?P<body>[^\]]+)\]\s*$ from index t, where "time:" ended
StageBracket(line, t) ==
    LET k == SkipWhile(line, t, Space)
        e == SkipWhile(line, k + 1, Range(line) \ {"]"})
    IN  IF /\ k > t
           /\ LitAt(line, k, <<"[">>)
           /\ e > k + 1
           /\ LitAt(line, e, <<"]">>)
           /\ SkipWhile(line, e + 1, Space) = Len(line) + 1
        THEN Some(SubSeq(line, k + 1, e - 1))
        ELSE None

\* TIME_LINE_RE.match(line), line 35
TIME_LINE_RE(line) ==
    LET b == SkipWhile(line, 1, NameChar \cup {"/"})
        t == SkipWhile(line, b, Space)
    IN  IF /\ b > 1 /\ t > b
           /\ LitAt(line, t, TimeLit)
           /\ StageBracket(line, t + Len(TimeLit)) # None
        THEN Some([bench |-> SubSeq(line, 1, b - 1),
                   body |-> StageBracket(line, t + Len(TimeLit))[1]])
        ELSE None

\* TIME_ONLY_RE.match(line), line 38
TIME_ONLY_RE(line) ==
    LET t == SkipWhile(line, 1, Space)
    IN  IF LitAt(line, t, TimeLit) /\ StageBracket(line, t + Len(TimeLit)) # None
        THEN Some([body |-> StageBracket(line, t + Len(TimeLit))[1]])
        ELSE None

\* extract_mid_time, lines 87-128
extract_mid_time(lines, expected_bench) ==
    LET A == {i \in DOMAIN lines :
                 /\ TIME_LINE_RE(strip(lines[i])) # None
                 /\ TIME_LINE_RE(strip(lines[i]))[1].bench = expected_bench}
        Follow(i) == {j \in (i + 1)..(i + 5) :
                         j \in DOMAIN lines /\ TIME_ONLY_RE(lines[j]) # None}
        B == {i \in DOMAIN lines : strip(lines[i]) = expected_bench /\ Follow(i) # {}}
        Min(S) == CHOOSE x \in S : \A y \in S : x <= y
    IN  IF A # {} THEN parse_body(TIME_LINE_RE(strip(lines[Min(A)]))[1].body)
        ELSE IF B # {} THEN parse_body(TIME_ONLY_RE(lines[Min(Follow(Min(B)))])[1].body)
        ELSE Raised("RuntimeError")

(***************************************************************************)
(* stage_spotcheck.py: ratios, their geometric mean, and both as text.     *)
(***************************************************************************)
RECURSIVE Gcd(_, _)
Gcd(a, b) == IF b = 0 THEN a ELSE Gcd(b, a % b)

\* float("nan"), and the quotient num/den of two durations in lowest terms
NaN == [nan |-> TRUE]
Ratio(num, den) ==
    [nan |-> FALSE, num |-> num \div Gcd(num, den), den |-> den \div Gcd(num, den)]

\* line 233
StageRatio(merman_micros, mmdr_micros) ==
    IF mmdr_micros > 0 THEN Ratio(merman_micros, mmdr_micros) ELSE NaN

NanText == <<"n", "a", "n">>

\* f"{ratio:.2f}x", line 254
RatioText(ratio) ==
    IF ratio.nan THEN NanText \o <<"x">>
    ELSE Fixed(ratio.num, ratio.den, 2) \o <<"x">>

RECURSIVE Product(_, _)
Product(vals, field) ==
    IF vals = <<>> THEN 1 ELSE vals[1][field] * Product(Tail(vals), field)

RECURSIVE Power(_, _)
Power(b, n) == IF n = 0 THEN 1 ELSE b * Power(b, n - 1)

\* A variant of gmean that defaults to 1 when no value is left.
GmeanDefaultsToOne(values) ==
    LET vals == SelectSeq(values, LAMBDA v : ~v.nan /\ v.num > 0 /\ v.den > 0)
    IN  IF vals = <<>> THEN [nan |-> FALSE, root |-> 1, num |-> 1, den |-> 1]
        ELSE LET r == Ratio(Product(vals, "num"), Product(vals, "den"))
             IN  [nan |-> FALSE, root |-> Len(vals), num |-> r.num, den |-> r.den]

\* gmean, lines 63-67: nan, or the root-th root of num/den.  A value is
\* nan, or num/den, with den = 0 for an infinite one.
gmean(values) ==
    LET vals == SelectSeq(values, LAMBDA v : ~v.nan /\ v.num > 0 /\ v.den > 0)
    IN  IF vals = <<>> THEN NaN
        ELSE LET r == Ratio(Product(vals, "num"), Product(vals, "den"))
             IN  [nan |-> FALSE, root |-> Len(vals), num |-> r.num, den |-> r.den]

\* The hundredths nearest to the root-th root of num/den.
RootHundredths(root, num, den) ==
    CHOOSE q \in 0..(100 * (num \div den + 1)) :
        /\ Power(200, root) * num < Power(2 * q + 1, root) * den
        /\ q > 0 => Power(2 * q - 1, root) * den <= Power(200, root) * num

\* f"{gmean(ratios):.2f}x", line 262
GmeanText(g) ==
    IF g.nan THEN NanText \o <<"x">>
    ELSE LET q == RootHundredths(g.root, g.num, g.den)
         IN  Digits(q \div 100) \o <<".">> \o ZeroPad(q % 100, 2) \o <<"x">>

(***************************************************************************)
(* stage_spotcheck.main: its inputs and its steps.                         *)
(***************************************************************************)
ParseStage == <<"p", "a", "r", "s", "e">>
LayoutStage == <<"l", "a", "y", "o", "u", "t">>
RenderStage == <<"r", "e", "n", "d", "e", "r">>
RenderSvgStage == RenderStage \o <<"_", "s", "v", "g">>

\* lines 193-194
stages_merman == <<ParseStage, LayoutStage, RenderStage, E2E>>
stages_mmdr == <<ParseStage, LayoutStage, RenderSvgStage, E2E>>

\* A variant of MmdrStage that takes the name merman has for the stage.
MmdrStageSame(stage) == stage

\* line 200
MmdrStage(stage) == IF stage = RenderStage THEN RenderSvgStage ELSE stage

\* The values --fixtures may have.
FixtureArgs ==
    {<<"a">>,
     <<"a", ",", "b">>,
     <<" ", "b", " ", ",", " ", "a", ",">>,
     <<" ", ",", " ">>,
     <<>>}

Mid(num, unit) == [num |-> num, unit |-> unit]

\* "[1 u mid u 9 u]": a Criterion bracket around a mid estimate
StageBody(m) ==
    <<"1", " ">> \o m.unit \o <<" ">> \o m.num \o <<" ">> \o m.unit
        \o <<" ", "9", " ">> \o m.unit

\* The mid estimates a tool may report for a stage.
StageMids(tool, stage) ==
    IF tool = "merman"
    THEN CASE stage = ParseStage -> {Mid(<<"2">>, <<"n", "s">>)}
           [] stage = LayoutStage -> {Mid(<<"0">>, <<"n", "s">>), Mid(<<"2">>, <<"u", "s">>)}
           [] stage = RenderStage -> {Mid(<<"2">>, <<"n", "s">>)}
           [] OTHER -> {Mid(<<"4">>, <<"n", "s">>)}
    ELSE CASE stage = ParseStage ->
                  {Mid(<<"1">>, <<"n", "s">>), Mid(<<"4">>, <<"n", "s">>),
                   Mid(<<"0">>, <<"n", "s">>)}
           [] stage = LayoutStage -> {Mid(<<"2">>, <<"u", "s">>)}
           [] stage = RenderSvgStage -> {Mid(<<"1">>, <<"n", "s">>), Mid(<<"5">>, <<"x", "s">>)}
           [] OTHER -> {Mid(<<"4">>, <<"n", "s">>)}

\* What a successful `cargo bench -- --exact stage/fixture` may print: the
\* one-line layout, the two-line layout for end_to_end, or no estimate.
StageOutputs(tool, stage, fixture) ==
    LET exact == stage \o <<"/">> \o fixture
    IN  IF stage = E2E
        THEN {<<exact, <<" ", " ">> \o TimeLit \o <<" ", " ", "[">> \o StageBody(m) \o <<"]">> >> :
                 m \in StageMids(tool, stage)}
        ELSE IF stage = RenderStage
        THEN {<<>>} \cup
             {<<exact \o <<" ", " ">> \o TimeLit \o <<" ", "[">> \o StageBody(m) \o <<"]">> >> :
                 m \in StageMids(tool, stage)}
        ELSE {<<exact \o <<" ", " ">> \o TimeLit \o <<" ", "[">> \o StageBody(m) \o <<"]">> >> :
                 m \in StageMids(tool, stage)}

InitStage ==
    /\ IdleParse /\ IdleExpand /\ IdleTable /\ IdleMain /\ IdleFn /\ IdlePub
    /\ stage_pc = "start"
    /\ args_fixtures \in FixtureArgs
    /\ fixtures = <<>>
    /\ stage_i = 0
    /\ merman_mid = None
    /\ stage_rows = <<>>
    /\ stage_cmds = <<>>
    /\ stage_failure = None
    /\ stage_out = None

\* lines 189-191
StageArgs ==
    /\ stage_pc = "start"
    /\ LET fs == SelectSeq([i \in DOMAIN Split(args_fixtures, ",") |->
                               strip(Split(args_fixtures, ",")[i])],
                           LAMBDA x : x # <<>>)
       IN  /\ fixtures' = fs
           /\ IF fs = <<>>
              THEN /\ stage_pc' = "exit"
                   /\ stage_failure' = Some([kind |-> "SystemExit", at |-> "start"])
              ELSE /\ stage_pc' = "merman"
                   /\ UNCHANGED stage_failure
    /\ UNCHANGED <<pubVars, fnVars, parseVars, expandVars, tableVars, mainVars, args_fixtures, stage_i,
                   merman_mid, stage_rows, stage_cmds, stage_out>>

\* The fixture and the stage of the pair the loop of lines 198-199 is at.
StageFixture == fixtures[(stage_i \div Len(stages_merman)) + 1]
StageOf == stages_merman[(stage_i % Len(stages_merman)) + 1]

\* lines 202-217
StageMerman ==
    /\ stage_pc = "merman"
    /\ \E o \in StageOutputs("merman", StageOf, StageFixture) :
          LET exact == StageOf \o <<"/">> \o StageFixture
              r == extract_mid_time(o, exact)
          IN  /\ stage_cmds' = Append(stage_cmds, Cmd("merman", "bench", exact))
              /\ IF r.ok
                 THEN /\ merman_mid' = Some(r.value)
                      /\ stage_pc' = "mmdr"
                      /\ UNCHANGED stage_failure
                 ELSE /\ stage_pc' = "failed"
                      /\ stage_failure' = Some([kind |-> r.kind, at |-> "merman"])
                      /\ UNCHANGED merman_mid
    /\ UNCHANGED <<pubVars, fnVars, parseVars, expandVars, tableVars, mainVars, args_fixtures, fixtures,
                   stage_i, stage_rows, stage_out>>

\* lines 219-234
StageMmdr ==
    /\ stage_pc = "mmdr"
    /\ \E o \in StageOutputs("mmdr", MmdrStage(StageOf), StageFixture) :
          LET exact == MmdrStage(StageOf) \o <<"/">> \o StageFixture
              r == extract_mid_time(o, exact)
          IN  /\ stage_cmds' = Append(stage_cmds, Cmd("mmdr", "bench", exact))
              /\ IF r.ok
                 THEN /\ stage_rows' =
                             Append(stage_rows,
                                    [fixture |-> StageFixture,
                                     stage |-> StageOf,
                                     merman_mid |-> merman_mid[1],
                                     mmdr_mid |-> r.value,
                                     ratio |-> StageRatio(merman_mid[1].micros,
                                                          r.value.micros)])
                      /\ stage_i' = stage_i + 1
                      /\ stage_pc' = IF stage_i + 1 = Len(fixtures) * Len(stages_merman)
                                     THEN "report" ELSE "merman"
                      /\ UNCHANGED stage_failure
                 ELSE /\ stage_pc' = "failed"
                      /\ stage_failure' = Some([kind |-> r.kind, at |-> "mmdr"])
                      /\ UNCHANGED <<stage_rows, stage_i>>
    /\ UNCHANGED <<pubVars, fnVars, parseVars, expandVars, tableVars, mainVars, args_fixtures, fixtures,
                   merman_mid, stage_out>>

\* run, lines 80-83, under either invocation of the loop
StageRunFails ==
    /\ stage_pc \in {"merman", "mmdr"}
    /\ \E o \in FailOutputs :
          /\ stage_cmds' =
                 Append(stage_cmds,
                        CmdFailed(stage_pc, "bench",
                                  (IF stage_pc = "merman" THEN StageOf ELSE MmdrStage(StageOf))
                                      \o <<"/">> \o StageFixture,
                                  o))
          /\ stage_failure' = RunFailed(stage_pc, o)
    /\ stage_pc' = "failed"
    /\ UNCHANGED <<pubVars, fnVars, parseVars, expandVars, tableVars, mainVars, args_fixtures, fixtures,
                   stage_i, merman_mid, stage_rows, stage_out>>

\* line 254
StageRowLine(r) ==
    [fixture |-> r.fixture, stage |-> r.stage, merman |-> r.merman_mid.raw,
     mmdr |-> r.mmdr_mid.raw, ratio |-> RatioText(r.ratio)]

\* lines 260-262
StageSummary(rows) ==
    [k \in DOMAIN stages_merman |->
        [stage |-> stages_merman[k],
         gmean |-> GmeanText(gmean(
                       [i \in DOMAIN SelectSeq(rows, LAMBDA r : r.stage = stages_merman[k]) |->
                           SelectSeq(rows, LAMBDA r : r.stage = stages_merman[k])[i].ratio]))]]

\* lines 236-272
StageReport ==
    /\ stage_pc = "report"
    /\ stage_out' = Some([fixtures |-> fixtures,
                          rows |-> [i \in DOMAIN stage_rows |-> StageRowLine(stage_rows[i])],
                          summary |-> StageSummary(stage_rows)])
    /\ stage_pc' = "done"
    /\ UNCHANGED <<pubVars, fnVars, parseVars, expandVars, tableVars, mainVars, args_fixtures, fixtures,
                   stage_i, merman_mid, stage_rows, stage_cmds, stage_failure>>

NextStage ==
    \/ StageArgs
    \/ StageMerman
    \/ StageMmdr
    \/ StageRunFails
    \/ StageReport

SpecStage == InitStage /\ [][NextStage]_vars

(***************************************************************************)
(* Ratios over a denominator of zero.                                      *)
(***************************************************************************)
\* The rows of the written spot-check whose mmdr estimate is zero.
ZeroDenominatorRows ==
    {i \in DOMAIN stage_rows : stage_rows[i].mmdr_mid.micros = 0}

\* C15: rendering a ratio never raises, and every row whose denominator is
\* zero shows the `inf` sentinel in its ratio column.  The spot-check writes
\* `nanx` for such a row.
C15_ZeroDenominatorRendersInf ==
    /\ stage_failure # None => stage_failure[1].kind # "ZeroDivisionError"
    /\ stage_out # None =>
          \A i \in ZeroDenominatorRows :
              /\ Len(stage_out[1].rows[i].ratio) >= Len(InfText)
              /\ SubSeq(stage_out[1].rows[i].ratio, 1, Len(InfText)) = InfText

(***************************************************************************)
(* The order of the rows of the comparison report.                         *)
(***************************************************************************)
\* The first cells of the lines of the Results table of the written report.
ResultLabels == [i \in DOMAIN report[1].results |-> report[1].results[i][1]]

\* C16: the rows of a written report are in ascending lexicographic order of
\* benchmark name, whatever the order in which the benchmarks were requested,
\* run and put into the tables; as the names are those the two tables have
\* in common, the tables determine the order.
C16_RowsAscendingByName ==
    report # None =>
        /\ \A i, j \in DOMAIN ResultLabels :
               i < j => StrLess(ResultLabels[i], ResultLabels[j])
        /\ report[1].rows # <<>> =>
               {ResultLabels[i] : i \in DOMAIN ResultLabels}
                   = {E2E \o <<"/">> \o n : n \in DOMAIN merman_times \cap DOMAIN mmdr_times}

\* A report of two rows whose benchmarks were requested and run in descending
\* order.
C16_Witness ==
    /\ report # None
    /\ Len(report[1].results) = 2
    /\ benches = <<Bench(E2E, <<"b">>), Bench(E2E, <<"a">>)>>
    /\ \E k \in DOMAIN cmds :
          /\ k + 2 \in DOMAIN cmds
          /\ cmds[k].exact = Bench(E2E, <<"b">>) /\ cmds[k].mode = "exact"
          /\ cmds[k + 2].exact = Bench(E2E, <<"a">>)

(***************************************************************************)
(* The conditional sections of the comparison report.                      *)
(***************************************************************************)
Headings == {report[1].sections[i].heading : i \in DOMAIN report[1].sections}

\* A merman invocation printed a skip line of the end_to_end group.
SkipPrinted ==
    \E i \in DOMAIN merman_out_all : \E j \in DOMAIN merman_out_all[i] :
        /\ SKIP_LINE(merman_out_all[i][j]) # None
        /\ SKIP_LINE(merman_out_all[i][j])[1].group = E2E

\* C17: a written report has the Skipped section exactly when merman printed
\* a skip of the reported group, and each Missing-benches section exactly
\* when its list is non-empty; no section is written twice or without names.
C17_SectionsOnlyWithData ==
    report # None =>
        /\ "Skipped (merman)" \in Headings <=> SkipPrinted
        /\ "Missing benches (merman)" \in Headings <=> missing_merman # <<>>
        /\ "Missing benches (mermaid-rs-renderer)" \in Headings <=> missing_mmdr # <<>>
        /\ \A i \in DOMAIN report[1].sections : report[1].sections[i].names # <<>>
        /\ Cardinality(Headings) = Len(report[1].sections)

\* A report with one of the sections, the other two having no data.
C17_Witness ==
    /\ report # None
    /\ Headings = {"Missing benches (mermaid-rs-renderer)"}
    /\ missing_merman = <<>>
    /\ ~SkipPrinted
    /\ report[1].rows # <<>>

(***************************************************************************)
(* Requested benchmarks without a row.                                     *)
(***************************************************************************)
\* The names the section with this heading lists in the written report.
Listed(heading) ==
    UNION {Range(report[1].sections[i].names) :
               i \in {k \in DOMAIN report[1].sections :
                          report[1].sections[k].heading = heading}}

\* C18: in a written report every requested benchmark has a row in the
\* Results table, or is listed in a Missing-benches section, or is listed
\* in the Skipped section.  A benchmark both repositories list, for which an
\* invocation printed no estimate and merman printed no skip line, is in
\* none of them.
C18_GapsAreListed ==
    report # None =>
        \A b \in Range(requested) :
            \/ \E i \in DOMAIN report[1].rows : report[1].rows[i].name = Split(b, "/")[2]
            \/ b \in Listed("Missing benches (merman)")
            \/ b \in Listed("Missing benches (mermaid-rs-renderer)")
            \/ Split(b, "/")[2] \in Listed("Skipped (merman)")

(***************************************************************************)
(* The order of the benchmark invocations.                                 *)
(***************************************************************************)
\* The `--exact` invocations made so far, in order.
ExactCmds == SelectSeq(cmds, LAMBDA c : c.mode = "exact")

\* Every entry of the table t is in the table d.
Merged(t, d) == \A n \in DOMAIN t : n \in DOMAIN d /\ d[n] = t[n]

\* The invocations alternate merman, mmdr over the runnable names in request
\* order, and when the mmdr invocation of a name is due the output of the
\* merman invocation of that name is in the merman table.
InvocationOrder ==
    /\ \A k \in DOMAIN ExactCmds :
          /\ ExactCmds[k].tool = IF k % 2 = 1 THEN "merman" ELSE "mmdr"
          /\ ExactCmds[k].exact = benches[(k + 1) \div 2]
          /\ ExactCmds[k].failed # None => k = Len(ExactCmds)
    /\ pc = "bench_mmdr" =>
          /\ Len(ExactCmds) = 2 * idx + 1
          /\ Merged(parse_criterion_times(merman_out_all[Len(merman_out_all)],
                                          PrefixOf(benches[idx + 1])),
                    merman_times)
    /\ pc = "bench_merman" => Len(ExactCmds) = 2 * idx

\* A step changes a TimingTable only by completing one invocation of that
\* table's tool, and no step completes more than one invocation.
TablesChangeWithInvocation ==
    /\ Len(ExactCmds') <= Len(ExactCmds) + 1
    /\ merman_times' # merman_times =>
          /\ ExactCmds' = Append(ExactCmds, Cmd("merman", "exact", benches[idx + 1]))
          /\ mmdr_times' = mmdr_times
    /\ mmdr_times' # mmdr_times =>
          /\ ExactCmds' = Append(ExactCmds, Cmd("mmdr", "exact", benches[idx + 1]))
          /\ merman_times' = merman_times

\* C19: the benchmark invocations are strictly sequential: per runnable name
\* in request order first merman's, merged into its table before mmdr's
\* starts, then mmdr's, merged before the next name; never two at once, and
\* the tables change only as an invocation completes.
C19_StrictlySequential == [](InvocationOrder) /\ [][TablesChangeWithInvocation]_vars

\* Both names of a two-name request have been run, in request order, and
\* both tables hold both.
C19_Witness ==
    /\ pc = "mermaid_js"
    /\ benches = <<Bench(E2E, <<"b">>), Bench(E2E, <<"a">>)>>
    /\ Len(ExactCmds) = 4
    /\ DOMAIN merman_times = {<<"a">>, <<"b">>}
    /\ DOMAIN mmdr_times = {<<"a">>, <<"b">>}

(***************************************************************************)
(* parse_criterion_times over colourized output.                           *)
(***************************************************************************)
MaxWrapped == 2

\* Escape sequences a terminal-aware tool writes: colour on, reset, erase
\* line, hide cursor.
Green == <<"ESC", "[", "1", ";", "3", "2", "m">>
Reset == <<"ESC", "[", "0", "m">>
EraseLine == <<"ESC", "[", "K">>
HideCursor == <<"ESC", "[", "?", "2", "5", "l">>

Wraps == {"plain", "around", "erase", "inside"}

\* line with complete escape sequences put around it or into it, none
\* inside another.
Wrap(line, w) ==
    CASE w = "plain" -> line
      [] w = "around" -> Green \o line \o Reset
      [] w = "erase" -> EraseLine \o line
      [] w = "inside" ->
             IF Len(line) < 4 THEN HideCursor \o line
             ELSE SubSeq(line, 1, 3) \o Green \o SubSeq(line, 4, Len(line) - 1)
                      \o Reset \o From(line, Len(line))

\* The escape-free lines that get wrapped.
WrapCorpus ==
    {NameLine(<<"g">>, <<"a">>), TimeLine(Triple1), TimeLine(OnePair),
     InlineLine(<<"g">>, <<"b">>, Triple2), ChangeLine}

ParseWrappedLine ==
    \E raw \in WrapCorpus, w \in Wraps :
        /\ Len(text) < MaxWrapped
        /\ text' = Append(text, Wrap(raw, w))
        /\ LET st == ParseStep([times |-> times, cur |-> cur], Wrap(raw, w), prefix)
           IN  times' = st.times /\ cur' = st.cur
        /\ UNCHANGED <<pubVars, fnVars, stageVars, prefix, expandVars, tableVars, mainVars>>

NextWrapped == ParseWrappedLine

SpecWrapped == InitParse /\ [][NextWrapped]_vars

\* The text read so far with the escape sequences stripped.
Stripped == [i \in DOMAIN text |-> strip_ansi(text[i])]

\* C20: for every prefix, parse_criterion_times returns for a text wrapped
\* in escape sequences the table it returns for that text with the escape
\* sequences stripped, which is the escape-free text that was wrapped.
C20_WrappedParsesAsStripped ==
    /\ \A i \in DOMAIN text : Stripped[i] \in WrapCorpus
    /\ times = parse_criterion_times(Stripped, prefix)
    /\ \A pfx \in Groups \cup {<<"x">>} :
           parse_criterion_times(text, pfx) = parse_criterion_times(Stripped, pfx)

\* A name line and a time line, both wrapped, gave a table entry.
C20_Witness ==
    /\ Len(text) = 2
    /\ "ESC" \in Range(text[1])
    /\ "ESC" \in Range(text[2])
    /\ Stripped[1] = NameLine(<<"g">>, <<"a">>)
    /\ Stripped[2] = TimeLine(Triple1)
    /\ prefix = <<"g">>
    /\ DOMAIN times = {<<"a">>}

(***************************************************************************)
(* The two duration converters, called on their own.                       *)
(***************************************************************************)
\* The spellings the duration model names, and units outside them.
SixSpellings ==
    {<<"n", "s">>, <<"u", "s">>, <<"micro", "s">>, <<"mu", "s">>, <<"m", "s">>, <<"s">>}
OtherUnits == {<<"x", "s">>, <<"m">>, <<"s", "s">>, <<"K", "s">>, <<>>}

\* The smallest magnitudes the fixed point holds, written out: 0.0..0k.
Tiny(k) == <<"0", ".">> \o ZeroPad(k, FracDigits)

\* The magnitudes a unit is tried with: those whose nanoseconds stay within
\* the integers of the checker.
Magnitudes(unit) ==
    {Tiny(1), Tiny(2), <<"0">>}
        \cup (IF unit \in {<<"m", "s">>, <<"s">>} THEN {} ELSE {<<"3">>, <<"2", ".", "5">>})

\* TimeEstimate(value, unit).to_nanos(), lines 42-53, with its ValueError
ToNanosCall(est) ==
    IF UnitKey(est.unit) \in KnownUnits THEN Returned(to_nanos(est))
    ELSE Raised("ValueError")

InitUnits ==
    /\ IdleParse /\ IdleExpand /\ IdleTable /\ IdleMain /\ IdleStage /\ IdlePub
    /\ \E unit \in SixSpellings \cup OtherUnits : \E num \in Magnitudes(unit) :
          fn_arg = [num |-> num, unit |-> unit]
    /\ fn_out = <<>>

\* TimeEstimate(float(num), unit).to_nanos()
CallToNanos ==
    /\ "to_nanos" \notin DOMAIN fn_out
    /\ fn_out' = fn_out @@ ("to_nanos" :> ToNanosCall(TimeEstimate(float(fn_arg.num),
                                                                   fn_arg.unit)))
    /\ UNCHANGED <<pubVars, fn_arg, parseVars, expandVars, tableVars, mainVars, stageVars>>

\* parse_duration(f"{num} {unit}")
CallParseDuration ==
    /\ "parse_duration" \notin DOMAIN fn_out
    /\ fn_out' = fn_out @@ ("parse_duration" :>
                               parse_duration(fn_arg.num \o <<" ">> \o fn_arg.unit))
    /\ UNCHANGED <<pubVars, fn_arg, parseVars, expandVars, tableVars, mainVars, stageVars>>

NextUnits == CallToNanos \/ CallParseDuration

SpecUnits == InitUnits /\ [][NextUnits]_vars

\* The nanoseconds of one unit.
ScaleOf(unit) ==
    CASE unit = <<"n", "s">> -> 1
      [] unit \in {<<"u", "s">>, <<"micro", "s">>, <<"mu", "s">>} -> 1000
      [] unit = <<"m", "s">> -> 1000000
      [] unit = <<"s">> -> 1000000000

\* C21: both converters accept ns, us, micro-sign s, Greek-mu s, ms and s,
\* scaling by 1, 1e3, 1e3, 1e3, 1e6 and 1e9 nanoseconds, and reject every
\* other unit with an error.  parse_duration rejects the Greek mu.
C21_SixSpellingsBothConverters ==
    /\ "to_nanos" \in DOMAIN fn_out =>
          IF fn_arg.unit \in SixSpellings
          THEN fn_out["to_nanos"] = Returned(float(fn_arg.num) * ScaleOf(fn_arg.unit))
          ELSE ~fn_out["to_nanos"].ok
    /\ "parse_duration" \in DOMAIN fn_out =>
          IF fn_arg.unit \in SixSpellings
          THEN /\ fn_out["parse_duration"].ok
               /\ fn_out["parse_duration"].value.micros
                      = float(fn_arg.num) * ScaleOf(fn_arg.unit)
          ELSE ~fn_out["parse_duration"].ok

(***************************************************************************)
(* pretty_time, called on its own on whole numbers of nanoseconds.         *)
(***************************************************************************)
\* How far around each step of pretty_time the values go.
Around == 15

Steps == {1000, 1000000, 1000000000}

\* n/1e3, n/1e6 or n/1e9 lies halfway between two hundredths: the digit
\* printed is then decided by the binary expansion of the float.
Halfway(n) ==
    \/ 1000 <= n /\ n < 1000000 /\ n % 10 = 5
    \/ 1000000 <= n /\ n < 1000000000 /\ n % 10000 = 5000
    \/ 1000000000 <= n /\ n % 10000000 = 5000000

WholeNanos ==
    {n \in (0..Around) \cup {t + d : t \in Steps, d \in (0 - Around)..Around} : ~Halfway(n)}

InitPretty ==
    /\ IdleParse /\ IdleExpand /\ IdleTable /\ IdleMain /\ IdleStage /\ IdlePub
    /\ fn_arg \in WholeNanos
    /\ fn_out = <<>>

\* pretty_time(float(n))
CallPrettyTime ==
    /\ "pretty_time" \notin DOMAIN fn_out
    /\ fn_out' = fn_out @@ ("pretty_time" :> PrettyTime(fn_arg, 1))
    /\ UNCHANGED <<pubVars, fn_arg, parseVars, expandVars, tableVars, mainVars, stageVars>>

NextPretty == CallPrettyTime

SpecPretty == InitPretty /\ [][NextPretty]_vars

\* The unit a rendered time ends in, and its figure.
UnitOfText(t) == Split(t, " ")[2]
FigureOfText(t) == Split(t, " ")[1]

\* C22: pretty_time picks its unit with strict < at every step: ns below
\* 10^3, micro-sign s from 10^3 and below 10^6, ms from 10^6 and below 10^9,
\* s from 10^9; exactly 10^3 ns, 10^6 ns and 10^9 ns render as 1.00 of the
\* larger unit.
C22_StrictSteps ==
    "pretty_time" \in DOMAIN fn_out =>
        LET t == fn_out["pretty_time"]
            n == fn_arg
        IN  /\ UnitOfText(t) = <<"n", "s">> <=> n < 1000
            /\ UnitOfText(t) = <<"micro", "s">> <=> (1000 <= n /\ n < 1000000)
            /\ UnitOfText(t) = <<"m", "s">> <=> (1000000 <= n /\ n < 1000000000)
            /\ UnitOfText(t) = <<"s">> <=> 1000000000 <= n
            /\ n \in Steps => FigureOfText(t) = <<"1", ".", "0", "0">>

\* pretty_time was given exactly 10^9 ns.
C22_Witness ==
    /\ fn_arg = 1000000000
    /\ "pretty_time" \in DOMAIN fn_out
    /\ fn_out["pretty_time"] = <<"1", ".", "0", "0", " ", "s">>

(***************************************************************************)
(* gmean, called on its own, and its result as the summary writes it.      *)
(***************************************************************************)
MaxValues == 2

\* float("inf"), a negative value and zero
PosInf == [nan |-> FALSE, num |-> 1, den |-> 0]
Negative == [nan |-> FALSE, num |-> 0 - 1, den |-> 1]
Zero == [nan |-> FALSE, num |-> 0, den |-> 1]

GmeanValues == {NaN, PosInf, Negative, Zero, Ratio(2, 1), Ratio(1, 2), Ratio(1, 1)}

InitGmean ==
    /\ IdleParse /\ IdleExpand /\ IdleTable /\ IdleMain /\ IdleStage /\ IdlePub
    /\ fn_arg \in UNION {[1..k -> GmeanValues] : k \in 0..MaxValues}
    /\ fn_out = <<>>

\* gmean(values), and f"{gmean(values):.2f}x" as in line 262
CallGmean ==
    /\ "gmean" \notin DOMAIN fn_out
    /\ fn_out' = fn_out @@ ("gmean" :> [value |-> gmean(fn_arg),
                                        text |-> GmeanText(gmean(fn_arg))])
    /\ UNCHANGED <<pubVars, fn_arg, parseVars, expandVars, tableVars, mainVars, stageVars>>

NextGmean == CallGmean

SpecGmean == InitGmean /\ [][NextGmean]_vars

\* The positive finite values of the argument.
PositiveFinite ==
    {i \in DOMAIN fn_arg : ~fn_arg[i].nan /\ fn_arg[i].den > 0 /\ fn_arg[i].num > 0}

\* The product of field f of the argument's values at the indices of S.
RECURSIVE ProductOver(_, _)
ProductOver(S, f) ==
    IF S = {} THEN 1
    ELSE LET i == CHOOSE x \in S : TRUE IN fn_arg[i][f] * ProductOver(S \ {i}, f)

\* C23: gmean returns nan, never 0 or 1, exactly when no value of its input
\* is positive and finite, and the summary then writes nan; otherwise it
\* returns the geometric mean of the positive finite values alone: the
\* number whose n-th power is their product, n being how many they are; so
\* gmean([2.0, 0.5]) is 1.0.
C23_GmeanUndefinedOrMean ==
    "gmean" \in DOMAIN fn_out =>
        LET g == fn_out["gmean"].value
            t == fn_out["gmean"].text
        IN  /\ g.nan <=> PositiveFinite = {}
            /\ g.nan => t = NanText \o <<"x">>
            /\ ~g.nan =>
                  /\ g.root = Cardinality(PositiveFinite)
                  /\ g.num * ProductOver(PositiveFinite, "den")
                         = g.den * ProductOver(PositiveFinite, "num")
                  /\ t # NanText \o <<"x">>
            /\ fn_arg = <<Ratio(2, 1), Ratio(1, 2)>> => t = <<"1", ".", "0", "0", "x">>

\* gmean was given inf and zero only.
C23_Witness ==
    /\ fn_arg = <<PosInf, Zero>>
    /\ "gmean" \in DOMAIN fn_out
    /\ fn_out["gmean"].value = NaN
    /\ fn_out["gmean"].text = <<"n", "a", "n", "x">>

(***************************************************************************)
(* publish.py.  Crate names, tags and answers are whole strings; --crates  *)
(* is held as the items between its commas, stripped, "" for a blank one.  *)
(* The log holds what main does to the outside, in order: a command        *)
(* (started says whether a process was started or the command only         *)
(* printed), a confirmation (asked says whether input() was called) or a   *)
(* wait.                                                                   *)
(***************************************************************************)
\* lines 32-44
PUBLISH_ORDER ==
    <<"roughr-merman", "dugong-graphlib", "dugong", "manatee", "merman-core",
      "merman-render", "merman", "merman-cli">>

\* How many commands of the publish loop may go wrong in one run.
MaxTrouble == 1

\* A variant of Command that starts the process with dry_run too.
CommandStarted(kind, crate, dry_run, rc, flags) ==
    [kind |-> kind, crate |-> crate, started |-> TRUE, rc |-> rc, flags |-> flags]

\* run_command, lines 80-103: with dry_run the command is printed, no
\* process is started and the return code is 0
Command(kind, crate, dry_run, rc, flags) ==
    [kind |-> kind, crate |-> crate, started |-> ~dry_run,
     rc |-> IF dry_run THEN 0 ELSE rc, flags |-> flags]

\* The return codes a command may give.
ReturnCodes(dry_run, may_fail) == IF dry_run \/ ~may_fail THEN {0} ELSE {0, 1}

Confirmation(prompt, asked, result) ==
    [kind |-> "confirm", prompt |-> prompt, asked |-> asked, result |-> result]

\* What the user may type, stripped and in lower case.
Answers == {"", "y", "yes", "n"}

\* A variant of confirm that takes the default in a non-interactive session
\* and an empty answer for a yes.
ConfirmUnattended(args, tty, prompt, default) ==
    IF args.yes THEN {Confirmation(prompt, FALSE, "yes")}
    ELSE IF ~tty THEN {Confirmation(prompt, FALSE, default)}
    ELSE {Confirmation(prompt, TRUE, IF resp \in {"", "y", "yes"} THEN "yes" ELSE "no") :
             resp \in Answers}

\* confirm, lines 258-268: the confirmations it may make;
\* the result is "yes", "no", or "raise" for the RuntimeError of a
\* non-interactive session
confirm(args, tty, prompt, default) ==
    IF args.yes THEN {Confirmation(prompt, FALSE, "yes")}
    ELSE IF ~tty THEN {Confirmation(prompt, FALSE, "raise")}
    ELSE {Confirmation(prompt, TRUE, IF resp = "" THEN default
                          ELSE IF resp \in {"y", "yes"} THEN "yes" ELSE "no") :
             resp \in Answers}

\* A variant of iter_publish_list that walks PUBLISH_ORDER backwards.
PublishListBackwards(requested_crates, start_from) ==
    LET n == Len(PUBLISH_ORDER)
        crates == SelectSeq([i \in 1..n |-> PUBLISH_ORDER[n + 1 - i]],
                            LAMBDA c : requested_crates = None \/ c \in requested_crates[1])
        at == {i \in DOMAIN crates : crates[i] = start_from[1]}
    IN  IF start_from = None \/ start_from[1] = "" THEN Returned(crates)
        ELSE IF at = {} THEN Raised("RuntimeError")
        ELSE Returned(SubSeq(crates, CHOOSE i \in at : TRUE, Len(crates)))

\* iter_publish_list, lines 182-193; requested_crates is None or Some(set)
iter_publish_list(requested_crates, start_from) ==
    LET crates == SelectSeq(PUBLISH_ORDER,
                            LAMBDA c : requested_crates = None \/ c \in requested_crates[1])
        at == {i \in DOMAIN crates : crates[i] = start_from[1]}
    IN  IF start_from = None \/ start_from[1] = "" THEN Returned(crates)
        ELSE IF at = {} THEN Raised("RuntimeError")
        ELSE Returned(SubSeq(crates, CHOOSE i \in at : TRUE, Len(crates)))

\* How a run ended: by return code, or by an exception nobody caught.
Exit(code) == Some([code |-> code, raised |-> None])
Uncaught(kind) == Some([code |-> 1, raised |-> Some(kind)])

\* The values of --crates, --start-from and --tag.
CrateArgs ==
    {None, <<"dugong", "", "roughr-merman", "dugong">>, <<"manatee">>, <<"dugong", "nope">>}
StartArgs == {None, Some("dugong"), Some("merman")}
TagArgs == {None, Some("v1")}

\* What `cargo metadata` may report: name -> publish.
Packages ==
    {[c \in Range(PUBLISH_ORDER) |-> TRUE],
     [c \in Range(PUBLISH_ORDER) \ {"manatee"} |-> TRUE],
     [c \in Range(PUBLISH_ORDER) |-> c # "merman"]}

InitPublish ==
    /\ IdleParse /\ IdleExpand /\ IdleTable /\ IdleMain /\ IdleStage /\ IdleFn
    /\ pub_pc = "start"
    /\ pub_args \in [dry_run : BOOLEAN, yes : BOOLEAN, crates : CrateArgs,
                     start_from : StartArgs, wait : {0, 30}, no_verify : BOOLEAN,
                     preflight_publish_dry_run : BOOLEAN, preflight_only : BOOLEAN,
                     skip_xtask_verify : BOOLEAN, allow_dirty : BOOLEAN,
                     no_check_published : BOOLEAN, tag : TagArgs]
    /\ pub_tty \in (IF pub_args.yes THEN {FALSE} ELSE BOOLEAN)  \* read only without --yes
    /\ pub_crates = <<>>
    /\ pub_i = 0
    /\ pub_failures = <<>>
    /\ pub_log = <<>>
    /\ pub_exit = None

\* lines 286-288
Requested(args) ==
    IF args.crates = None \/ args.crates = <<>> THEN None
    ELSE Some({args.crates[i] : i \in DOMAIN args.crates} \ {""})

\* lines 270-314: what the checks before the plan do, given whether the
\* tools are there, what `git status` and `cargo metadata` do and which
\* packages the workspace has
Checks(args, tools, git, md, pk) ==
    LET status == IF args.allow_dirty THEN <<>>
                  ELSE <<Command("git status", "", FALSE, IF git = "error" THEN 1 ELSE 0, <<>>)>>
        metadata == <<Command("cargo metadata", "", FALSE, IF md = "fail" THEN 1 ELSE 0, <<>>)>>
        listed == iter_publish_list(Requested(args), args.start_from)
        Ends(log, exit) == [log |-> log, exit |-> exit, crates |-> <<>>]
    IN  IF ~tools THEN Ends(<<>>, Exit(2))
        ELSE IF ~args.allow_dirty /\ git # "clean" THEN Ends(status, Exit(2))
        ELSE IF Requested(args) # None /\ Requested(args)[1] \ Range(PUBLISH_ORDER) # {}
        THEN Ends(status, Exit(2))
        ELSE IF ~listed.ok THEN Ends(status, Exit(2))
        ELSE IF md = "fail" THEN Ends(status \o metadata, Uncaught("RuntimeError"))
        ELSE IF \E i \in DOMAIN listed.value : listed.value[i] \notin DOMAIN pk
        THEN Ends(status \o metadata, Exit(2))
        ELSE IF \E i \in DOMAIN listed.value : ~pk[listed.value[i]]
        THEN Ends(status \o metadata, Exit(2))
        ELSE IF args.preflight_only /\ ~args.preflight_publish_dry_run
        THEN Ends(status \o metadata, Exit(2))
        ELSE [log |-> status \o metadata, exit |-> None, crates |-> listed.value]

\* lines 270-328
PubChecks ==
    /\ pub_pc = "start"
    /\ \E tools \in BOOLEAN, git \in {"clean", "dirty", "error"}, md \in {"ok", "fail"},
          pk \in Packages :
          LET r == Checks(pub_args, tools, git, md, pk)
          IN  /\ pub_log' = pub_log \o r.log
              /\ pub_exit' = r.exit
              /\ pub_crates' = r.crates
              /\ pub_pc' = IF r.exit = None THEN "verify" ELSE "exit"
    /\ UNCHANGED <<pub_args, pub_tty, pub_i, pub_failures, fnVars, parseVars, expandVars,
                   tableVars, mainVars, stageVars>>

\* A variant of PubVerify that goes on whatever the return code is.
PubVerifyUnchecked ==
    /\ pub_pc = "verify"
    /\ IF pub_args.skip_xtask_verify
       THEN UNCHANGED pub_log
       ELSE \E rc \in ReturnCodes(pub_args.dry_run, TRUE) :
               pub_log' = Append(pub_log,
                                 Command("xtask verify", "", pub_args.dry_run, rc, <<>>))
    /\ pub_pc' = "confirm"
    /\ UNCHANGED <<pub_exit, pub_args, pub_tty, pub_crates, pub_i, pub_failures, fnVars,
                   parseVars, expandVars, tableVars, mainVars, stageVars>>

\* lines 330-334
PubVerify ==
    /\ pub_pc = "verify"
    /\ IF pub_args.skip_xtask_verify
       THEN /\ pub_pc' = "confirm"
            /\ UNCHANGED <<pub_log, pub_exit>>
       ELSE \E rc \in ReturnCodes(pub_args.dry_run, TRUE) :
               /\ pub_log' = Append(pub_log,
                                    Command("xtask verify", "", pub_args.dry_run, rc, <<>>))
               /\ IF rc # 0
                  THEN pub_pc' = "exit" /\ pub_exit' = Exit(1)
                  ELSE pub_pc' = "confirm" /\ UNCHANGED pub_exit
    /\ UNCHANGED <<pub_args, pub_tty, pub_crates, pub_i, pub_failures, fnVars, parseVars,
                   expandVars, tableVars, mainVars, stageVars>>

\* Where the loop of line 347 goes once i crates are through.
LoopOrResult(i) == IF i < Len(pub_crates) THEN "loop" ELSE "result"

\* lines 336-346
PubConfirm ==
    /\ pub_pc = "confirm"
    /\ IF pub_args.dry_run
       THEN /\ pub_pc' = LoopOrResult(0)
            /\ UNCHANGED <<pub_log, pub_exit>>
       ELSE \E c \in confirm(pub_args, pub_tty,
                              IF pub_args.preflight_only
                              THEN "Continue with preflight (no upload)?"
                              ELSE "Continue with publishing?",
                              "no") :
               /\ pub_log' = Append(pub_log, c)
               /\ IF c.result = "raise"
                  THEN pub_pc' = "exit" /\ pub_exit' = Uncaught("RuntimeError")
                  ELSE IF c.result = "yes"
                  THEN pub_pc' = LoopOrResult(0) /\ UNCHANGED pub_exit
                  ELSE pub_pc' = "exit" /\ pub_exit' = Exit(0)
    /\ UNCHANGED <<pub_args, pub_tty, pub_crates, pub_i, pub_failures, fnVars, parseVars,
                   expandVars, tableVars, mainVars, stageVars>>

\* How many commands of the loop went wrong so far.
Trouble ==
    Cardinality({i \in DOMAIN pub_log :
                    /\ pub_log[i].kind \in {"cargo search", "cargo publish --dry-run",
                                            "cargo publish"}
                    /\ pub_log[i].rc # 0 \/ pub_log[i].flags = <<"found">>})
MayFail == Trouble < MaxTrouble

\* lines 155-166 and 351-355: whether the crate is skipped as published
\* already, with what that does to the outside; skip is "yes", "no" or
\* "raise"
AlreadyPublished(args, tty, crate) ==
    IF args.no_check_published \/ args.dry_run \/ args.preflight_only
    THEN {[log |-> <<>>, skip |-> "no"]}
    ELSE {[log |-> <<Command("cargo search", crate, FALSE, rc, <<>>)>>, skip |-> "no"] :
             rc \in ReturnCodes(FALSE, MayFail)}
         \cup
         (IF MayFail
          THEN {[log |-> <<Command("cargo search", crate, FALSE, 0, <<"found">>), c>>,
                 skip |-> c.result] :
                   c \in confirm(args, tty, "Skip this crate?", "yes")}
          ELSE {})

\* lines 361-374: the preflight of the crate; go is "on" (to the upload),
\* "next" (to the next crate) or "break"
Preflight(args, crate) ==
    IF ~args.preflight_publish_dry_run THEN {[log |-> <<>>, failed |-> FALSE, go |-> "on"]}
    ELSE {[log |-> <<Command("cargo publish --dry-run", crate, args.dry_run, rc,
                             IF args.no_verify \/ args.preflight_only
                             THEN <<"--no-verify">> ELSE <<>>)>>,
           failed |-> rc # 0,
           go |-> IF rc # 0 THEN "break" ELSE IF args.preflight_only THEN "next" ELSE "on"] :
             rc \in ReturnCodes(args.dry_run, MayFail)}

\* lines 376-393: the upload of the crate; go is "next", "break" or "raise"
Upload(args, tty, crate) ==
    UNION {IF rc = 0
           THEN {[log |-> <<Command("cargo publish", crate, args.dry_run, rc,
                                    IF args.no_verify THEN <<"--no-verify">> ELSE <<>>)>>
                          \o (IF ~args.dry_run /\ args.wait > 0
                              THEN <<[kind |-> "wait", seconds |-> args.wait]>> ELSE <<>>),
                  failed |-> FALSE, go |-> "next"]}
           ELSE {[log |-> <<Command("cargo publish", crate, args.dry_run, rc,
                                    IF args.no_verify THEN <<"--no-verify">> ELSE <<>>), c>>,
                  failed |-> TRUE,
                  go |-> IF c.result = "raise" THEN "raise"
                         ELSE IF c.result = "yes" THEN "next" ELSE "break"] :
                    c \in confirm(args, tty, "Continue with remaining crates?", "no")} :
           rc \in ReturnCodes(args.dry_run, MayFail)}

\* lines 347-393, one crate of the loop
Iteration(args, tty, crate) ==
    UNION {IF a.skip = "raise" THEN {[log |-> a.log, failed |-> FALSE, go |-> "raise"]}
           ELSE IF a.skip = "yes" THEN {[log |-> a.log, failed |-> FALSE, go |-> "next"]}
           ELSE UNION {IF p.go # "on"
                       THEN {[log |-> a.log \o p.log, failed |-> p.failed, go |-> p.go]}
                       ELSE {[log |-> a.log \o p.log \o u.log, failed |-> u.failed,
                              go |-> u.go] : u \in Upload(args, tty, crate)} :
                       p \in Preflight(args, crate)} :
           a \in AlreadyPublished(args, tty, crate)}

\* lines 347-393
PubCrate ==
    /\ pub_pc = "loop"
    /\ \E r \in Iteration(pub_args, pub_tty, pub_crates[pub_i + 1]) :
          /\ pub_log' = pub_log \o r.log
          /\ pub_failures' = IF r.failed THEN Append(pub_failures, pub_crates[pub_i + 1])
                             ELSE pub_failures
          /\ pub_i' = pub_i + 1
          /\ pub_pc' = IF r.go = "raise" THEN "exit"
                       ELSE IF r.go = "break" THEN "result"
                       ELSE LoopOrResult(pub_i + 1)
          /\ pub_exit' = IF r.go = "raise" THEN Uncaught("RuntimeError") ELSE None
    /\ UNCHANGED <<pub_args, pub_tty, pub_crates, fnVars, parseVars, expandVars, tableVars,
                   mainVars, stageVars>>

\* git_create_annotated_tag, lines 168-179, under the try of lines 405-412:
\* what it does to the outside and the exit code of main
Tagging(args) ==
    {[log |-> <<Command("git tag --list", "", FALSE, 1, <<>>)>>, code |-> 1],
     [log |-> <<Command("git tag --list", "", FALSE, 0, <<"found">>)>>, code |-> 1]}
    \cup
    {[log |-> <<Command("git tag --list", "", FALSE, 0, <<>>),
                Command("git tag -a", "", args.dry_run, rc, <<>>)>>,
      code |-> IF rc = 0 THEN 0 ELSE 1] : rc \in ReturnCodes(args.dry_run, TRUE)}

\* A variant of PubResult that tags before it looks at the failures.
PubResultTagsFirst ==
    /\ pub_pc = "result"
    /\ IF pub_args.tag = None \/ pub_args.tag[1] = ""
       THEN pub_exit' = Exit(IF pub_failures # <<>> THEN 1 ELSE 0) /\ UNCHANGED pub_log
       ELSE \E t \in Tagging(pub_args) :
               /\ pub_log' = pub_log \o t.log
               /\ pub_exit' = Exit(IF pub_failures # <<>> THEN 1 ELSE t.code)
    /\ pub_pc' = "exit"
    /\ UNCHANGED <<pub_args, pub_tty, pub_crates, pub_i, pub_failures, fnVars, parseVars,
                   expandVars, tableVars, mainVars, stageVars>>

\* lines 395-417
PubResult ==
    /\ pub_pc = "result"
    /\ IF pub_failures # <<>>
       THEN pub_exit' = Exit(1) /\ UNCHANGED pub_log
       ELSE IF pub_args.tag = None \/ pub_args.tag[1] = ""
       THEN pub_exit' = Exit(0) /\ UNCHANGED pub_log
       ELSE \E t \in Tagging(pub_args) :
               /\ pub_log' = pub_log \o t.log
               /\ pub_exit' = Exit(t.code)
    /\ pub_pc' = "exit"
    /\ UNCHANGED <<pub_args, pub_tty, pub_crates, pub_i, pub_failures, fnVars, parseVars,
                   expandVars, tableVars, mainVars, stageVars>>

NextPublish == PubChecks \/ PubVerify \/ PubConfirm \/ PubCrate \/ PubResult

SpecPublish == InitPublish /\ [][NextPublish]_vars

\* The publish commands of the log, preflight or upload.
PublishKinds == {"cargo publish --dry-run", "cargo publish"}
IsPublish(e) == e.kind \in PublishKinds
PublishAt == {i \in DOMAIN pub_log : IsPublish(pub_log[i])}
Uploads == SelectSeq(pub_log, LAMBDA e : e.kind = "cargo publish")
OrderOf(crate) == CHOOSE k \in DOMAIN PUBLISH_ORDER : PUBLISH_ORDER[k] = crate

\* The publish commands of the log, in order.
Publishes == SelectSeq(pub_log, IsPublish)

\* C24: the crates of the publish commands come in the order of
\* PUBLISH_ORDER (a crate's preflight before its upload, each at most once),
\* every one of them is in PUBLISH_ORDER and selected by --crates, and none
\* of them precedes the crate of --start-from.
C24_PublishOrder ==
    LET p == Publishes
    IN  /\ \A k \in DOMAIN p :
              /\ p[k].crate \in Range(PUBLISH_ORDER)
              /\ Requested(pub_args) # None => p[k].crate \in Requested(pub_args)[1]
              /\ pub_args.start_from # None =>
                    /\ pub_args.start_from[1] \in Range(PUBLISH_ORDER)
                    /\ OrderOf(p[k].crate) >= OrderOf(pub_args.start_from[1])
              /\ k > 1 =>
                    \/ OrderOf(p[k - 1].crate) < OrderOf(p[k].crate)
                    \/ /\ p[k - 1].crate = p[k].crate
                       /\ p[k - 1].kind = "cargo publish --dry-run"
                       /\ p[k].kind = "cargo publish"

\* --crates names dugong before roughr-merman, --start-from names dugong,
\* and dugong alone is uploaded.
C24_Witness ==
    /\ pub_args.crates = <<"dugong", "", "roughr-merman", "dugong">>
    /\ pub_args.start_from = Some("dugong")
    /\ pub_exit = Exit(0)
    /\ Len(Uploads) = 1
    /\ Uploads[1].crate = "dugong" /\ Uploads[1].started

KindAt(kinds) == {i \in DOMAIN pub_log : pub_log[i].kind \in kinds}
Verifies == KindAt({"xtask verify"})
TagKinds == {"git tag --list", "git tag -a"}

\* C25: without --skip-xtask-verify a run that got past its checks has issued
\* `xtask verify` exactly once, before every confirmation and every publish
\* or tag command; and when verify returned nonzero the run is over with
\* exit code 1 and no publish or tag command in it.
C25_VerifyOnceAndFirst ==
    /\ Cardinality(Verifies) <= 1
    /\ ~pub_args.skip_xtask_verify =>
          /\ (\/ pub_pc \in {"confirm", "loop", "result"}
              \/ pub_exit = Exit(0)
              \/ KindAt({"confirm"} \cup PublishKinds \cup TagKinds) # {})
             => Cardinality(Verifies) = 1
          /\ \A v \in Verifies :
                /\ \A i \in KindAt({"confirm"} \cup PublishKinds \cup TagKinds) : v < i
                /\ pub_log[v].rc # 0 =>
                      /\ pub_pc = "exit" /\ pub_exit = Exit(1)
                      /\ KindAt(PublishKinds \cup TagKinds) = {}

\* verify was started and failed in a run asked to preflight, upload and tag.
C25_Witness ==
    /\ ~pub_args.skip_xtask_verify /\ pub_args.preflight_publish_dry_run
    /\ pub_args.tag = Some("v1") /\ pub_args.yes
    /\ pub_crates # <<>>
    /\ \E v \in Verifies : pub_log[v].started /\ pub_log[v].rc # 0
    /\ pub_exit = Exit(1)

\* The commands that change something: the workspace build, the registry,
\* the repository.
StateChanging == {"xtask verify", "git tag -a"} \cup PublishKinds

\* C26: with --dry-run no process is started for `xtask verify`, for a
\* `cargo publish` (preflight or upload) or for `git tag -a`, and the run has
\* no wait and no confirmation in it.
C26_DryRunStartsNothing ==
    pub_args.dry_run =>
       \A i \in DOMAIN pub_log :
          /\ pub_log[i].kind \notin {"wait", "confirm"}
          /\ pub_log[i].kind \in StateChanging => ~pub_log[i].started

\* A dry run over with verify, a preflight, an upload and the tag printed,
\* with a wait asked for and without --yes.
C26_Witness ==
    /\ pub_args.dry_run /\ ~pub_args.yes /\ pub_args.wait > 0
    /\ pub_exit = Exit(0)
    /\ \A k \in StateChanging : KindAt({k}) # {}

\* With --preflight-only no upload is issued, and without
\* --preflight-publish-dry-run no verify and no publish command either; the
\* run then ends in its checks, with exit code 2 unless `cargo metadata`
\* failed, whose RuntimeError nobody catches.
PreflightOnlyButForMetadata ==
    pub_args.preflight_only =>
       /\ KindAt({"cargo publish"}) = {}
       /\ ~pub_args.preflight_publish_dry_run =>
             /\ KindAt({"xtask verify"} \cup PublishKinds) = {}
             /\ pub_pc \in {"start", "exit"}
             /\ pub_pc = "exit" =>
                   \/ pub_exit = Exit(2)
                   \/ /\ pub_exit = Uncaught("RuntimeError")
                      /\ \E i \in KindAt({"cargo metadata"}) : pub_log[i].rc # 0

\* C27: with --preflight-only no `cargo publish` without --dry-run is ever
\* issued; and with --preflight-only but without --preflight-publish-dry-run
\* no verify and no publish command is issued and the run ends in its checks
\* with exit code 2.
C27_PreflightOnlyNeverUploads ==
    pub_args.preflight_only =>
       /\ KindAt({"cargo publish"}) = {}
       /\ ~pub_args.preflight_publish_dry_run =>
             /\ KindAt({"xtask verify"} \cup PublishKinds) = {}
             /\ pub_pc \in {"start", "exit"}
             /\ pub_pc = "exit" => pub_exit = Exit(2)

\* The confirmations of lines 336-344.
GoAhead ==
    {i \in KindAt({"confirm"}) :
        pub_log[i].prompt \in {"Continue with publishing?",
                               "Continue with preflight (no upload)?"}}

\* C28: without --dry-run every upload comes after a "Continue with
\* publishing?" confirmed by --yes or by an answer typed at a terminal; a
\* confirmation declined (by an answer or by the empty one) ends the run with
\* exit code 0 and no publish command; and without --yes and without a
\* terminal the run fails with no publish command.
C28_NoUploadUnconfirmed ==
    ~pub_args.dry_run =>
       /\ \A u \in KindAt({"cargo publish"}) :
             \E c \in GoAhead :
                /\ c < u
                /\ pub_log[c].prompt = "Continue with publishing?"
                /\ pub_log[c].result = "yes"
                /\ pub_args.yes \/ (pub_tty /\ pub_log[c].asked)
       /\ \A c \in GoAhead :
             /\ pub_log[c].result = "no" =>
                   pub_pc = "exit" /\ pub_exit = Exit(0) /\ KindAt(PublishKinds) = {}
             /\ pub_log[c].result = "raise" =>
                   /\ pub_pc = "exit" /\ pub_exit # None /\ pub_exit[1].code # 0
                   /\ KindAt(PublishKinds) = {}
       /\ ~pub_args.yes /\ ~pub_tty =>
             /\ KindAt(PublishKinds) = {}
             /\ pub_pc \notin {"loop", "result"}
             /\ pub_exit # Exit(0)

\* An upload started after a yes typed at the terminal.
C28_Witness ==
    /\ ~pub_args.dry_run /\ ~pub_args.yes /\ pub_tty
    /\ \E c \in GoAhead : pub_log[c].asked /\ pub_log[c].result = "yes"
    /\ \E u \in KindAt({"cargo publish"}) : pub_log[u].started

\* The publish commands that returned nonzero.
FailedAt == {i \in PublishAt : pub_log[i].rc # 0}

\* C29: a tag command comes after every publish command, in a run that is
\* over with an empty failure list; once a preflight or an upload has failed
\* its crate is in the failure list, no tag command is issued and the run can
\* only end with exit code 1; and after a failed preflight no publish command
\* follows.
C29_TagOnlyAfterCleanLoop ==
    /\ \A t \in KindAt(TagKinds) :
          /\ pub_failures = <<>>
          /\ pub_pc = "exit"
          /\ \A i \in PublishAt : i < t
    /\ {pub_log[i].crate : i \in FailedAt} = Range(pub_failures)
    /\ FailedAt # {} =>
          /\ KindAt(TagKinds) = {}
          /\ pub_pc = "exit" => pub_exit = Exit(1)
    /\ \A p \in FailedAt :
          pub_log[p].kind = "cargo publish --dry-run" =>
             /\ pub_pc \in {"result", "exit"}
             /\ \A i \in PublishAt : i <= p

\* A run with --tag over after one crate was uploaded and the preflight of
\* the next failed while crates were left.
C29_Witness ==
    /\ pub_args.tag = Some("v1")
    /\ pub_exit = Exit(1)
    /\ Len(Uploads) = 1 /\ Uploads[1].rc = 0
    /\ pub_i < Len(pub_crates)
    /\ \E p \in FailedAt : pub_log[p].kind = "cargo publish --dry-run"

\* The stage names in their fixed order, and the name of the mmdr
\* benchmark of each.
StageNames == <<ParseStage, LayoutStage, RenderStage, E2E>>
MmdrName(stage) ==
    CASE stage = ParseStage -> ParseStage
      [] stage = LayoutStage -> LayoutStage
      [] stage = RenderStage -> RenderSvgStage
      [] stage = E2E -> E2E

\* The fixture and the stage the k-th pair of the loop has.
PairFixture(k) == fixtures[((k - 1) \div 4) + 1]
PairStage(k) == StageNames[((k - 1) % 4) + 1]

\* C30: the k-th row is of the k-th (fixture, stage) pair, fixtures in their
\* order and under each the stages parse, layout, render, end_to_end; it
\* comes of the two invocations `stage/fixture` of merman and then
\* `render_svg/fixture` (for render) or `stage/fixture` of mmdr; a report has
\* one row for every pair and for each stage the mean of the ratios of the
\* rows of that stage alone; and after a failure the run is over with no
\* report.
C30_OneRowPerPair ==
    /\ \A k \in DOMAIN stage_rows :
          /\ stage_rows[k].fixture = PairFixture(k)
          /\ stage_rows[k].stage = PairStage(k)
          /\ stage_cmds[2 * k - 1] =
                 Cmd("merman", "bench", PairStage(k) \o <<"/">> \o PairFixture(k))
          /\ stage_cmds[2 * k] =
                 Cmd("mmdr", "bench", MmdrName(PairStage(k)) \o <<"/">> \o PairFixture(k))
    /\ Len(stage_cmds) \in {2 * Len(stage_rows), 2 * Len(stage_rows) + 1,
                            2 * Len(stage_rows) + 2}
    /\ stage_out # None =>
          /\ Len(stage_rows) = 4 * Len(fixtures)
          /\ Len(stage_cmds) = 2 * Len(stage_rows)
          /\ Len(stage_out[1].rows) = Len(stage_rows)
          /\ \A k \in DOMAIN stage_rows :
                /\ stage_out[1].rows[k].fixture = PairFixture(k)
                /\ stage_out[1].rows[k].stage = PairStage(k)
          /\ \A f \in Range(fixtures), n \in Range(StageNames) :
                Cardinality({k \in DOMAIN stage_out[1].rows :
                                /\ stage_out[1].rows[k].fixture = f
                                /\ stage_out[1].rows[k].stage = n}) = 1
          /\ Len(stage_out[1].summary) = 4
          /\ \A n \in 1..4 :
                /\ stage_out[1].summary[n].stage = StageNames[n]
                /\ stage_out[1].summary[n].gmean =
                       GmeanText(gmean([f \in DOMAIN fixtures |->
                                           stage_rows[4 * (f - 1) + n].ratio]))
          /\ stage_failure = None
    /\ stage_failure # None =>
          /\ stage_out = None
          /\ stage_pc \in {"failed", "exit"}
          /\ ~ENABLED NextStage

\* A report of two fixtures, given as " b , a,".
C30_Witness ==
    /\ stage_out # None
    /\ fixtures = <<<<"b">>, <<"a">>>>
    /\ Len(stage_out[1].rows) = 8

\* C33: with --preflight-only no `git tag -a` command is issued, --tag given
\* or not.
C33_PreflightOnlyNoTag ==
    pub_args.preflight_only => KindAt({"git tag -a"}) = {}

\* The lines that name a benchmark of a group other than the requested one.
OtherGroupLines ==
    {NameLine(g, n) : g \in Groups \ {prefix}, n \in Names}
    \cup {InlineLine(g, n, qs) : g \in Groups \ {prefix}, n \in Names, qs \in {Triple1, OnePair}}

\* The bare name line read last, of whatever group, or None.
LastNameLine ==
    LET at == {i \in DOMAIN text : text[i] \in NameLines}
    IN  IF at = {} THEN None ELSE Some(text[CHOOSE i \in at : \A j \in at : j <= i])

\* A line of another group changes neither the pending slot nor the table.
OtherGroupLineIgnored ==
    [][(Reads /\ ReadLine \in OtherGroupLines) => (times' = times /\ cur' = cur)]_vars

\* C31: a line of another group changes neither the pending slot nor the
\* table, and a time line gives its estimate to a name of the requested
\* group only when the name line read last before it, of whatever group, is
\* the line of that name.
C31_OtherGroupNeverAttributed ==
    [][Reads =>
         /\ ReadLine \in OtherGroupLines => (times' = times /\ cur' = cur)
         /\ (ReadLine \in WellFormedTimeLines /\ cur # None)
               => LastNameLine = Some(NameLine(prefix, cur))]_vars

\* C32: the first cell of every row of the Results table of a written
\* report is one of the exact benchmark names the run invoked.
C32_RowLabelWasRun ==
    (report # None /\ report[1].rows # <<>>) =>
        \A i \in DOMAIN ResultLabels : ResultLabels[i] \in Range(benches)

====
